---- MODULE Spec2Model ----
(***************************************************************************)
(* Connection lifecycle engine of the WebSocket client (src/main.go).      *)
(*                                                                         *)
(* The goroutines of one client are modelled as processes with a program   *)
(* counter each: the supervisor (Start), the reader (ReadMessages), the    *)
(* heartbeat (sendPeriodicPing), a user goroutine calling SendMessage, the *)
(* interactive-input goroutine (startInteractiveMode) and two goroutines   *)
(* that call Stop.  One step is one atomic operation of the code: an       *)
(* atomic load/store, a critical section under c.mu, the acquisition of    *)
(* writeMu, the start or the end of a transport write, a select.           *)
(***************************************************************************)
EXTENDS Integers, FiniteSets, Sequences, TLC

\* ---------------------------------------------------------------- bounds
MaxDials == 2
MaxFrames == 1
MaxPings == 1
MaxSends == 1
MaxLines == 1
\* the retry scenarios: dials and frames the peer takes part in
MaxRetryDials == 4
MaxRetryFrames == 2
\* dials of a peer that accepts none
MaxRefusedDials == 7
\* the largest -r value of the retry scenarios
MaxRetriesFlag == 2
\* SendMessage calls of a burst, all within one window of the rate limiter
MaxBurst == 101
\* SendMessage calls of a client that is never connected
MaxFlood == 1002
\* the seconds an idle session is watched, and the longest time the peer
\* takes to answer a ping, in seconds
MaxTime == 150
MaxLatency == 20
\* the seconds that pass at once between two calls of RateLimiter.Allow
Quantum == 30
\* requests of /health and /ready that are answered
MaxProbes == 2
\* requests of /metrics that are answered
MaxScrapes == 2

\* ---------------------------------------------------------- connection state
StateDisconnected == "Disconnected"
StateConnecting == "Connecting"
StateConnected == "Connected"
StateReconnecting == "Reconnecting"
StateStopping == "Stopping"
StateStopped == "Stopped"

ConnectionState ==
  {StateDisconnected, StateConnecting, StateConnected,
   StateReconnecting, StateStopping, StateStopped}

\* ------------------------------------------------------------------ processes
Sup == "sup"
Reader == "reader"
Hb == "hb"
User == "user"
Inter == "inter"
Stoppers == {"stop1", "stop2"}
Senders == {User, Inter}
\* the goroutines of the metrics server that serve a request of /metrics
Tele == {"tele1", "tele2"}
Procs == {Sup, Reader, Hb, User, Inter} \cup Stoppers \cup Tele

NoConn == 0
Handles == 1..(IF MaxRetryDials > MaxDials THEN MaxRetryDials ELSE MaxDials)

\* kinds of error a dial returns (DefaultConnector.Connect wraps the dialer's
\* error): a refused connection, a failed handshake, a cancelled context
ErrRefused == "connection refused"
ErrHandshake == "bad handshake"
ErrCanceled == "operation was canceled"
ErrBrokenPipe == "broken pipe"
ErrTimeout == "i/o timeout"
ErrClosed == "use of closed network connection"
NoErr == "nil"

\* ErrorCode constants
ErrCodeConnectionRefused == 1001
ErrCodeConnectionTimeout == 1002
ErrCodeConnectionLost == 1003
ErrCodeHandshakeFailed == 1004
ErrCodeInvalidURL == 1005
ErrCodeTLSError == 1006
ErrCodeDNSError == 1007
ErrCodeMessageTooLarge == 2001
ErrCodeInvalidMessage == 2002
ErrCodeSendTimeout == 2003
ErrCodeReceiveTimeout == 2004
ErrCodeEncodingError == 2005
ErrCodeMaxRetriesExceeded == 3001
ErrCodeRetryTimeout == 3002
ErrCodeInvalidConfig == 4001
ErrCodeMissingParameter == 4002
ErrCodeFileSystemError == 5001
ErrCodeMemoryError == 5002
ErrCodeUnknownError == 5999
ErrCodeSecurityViolation == 6001
ErrCodeRateLimitExceeded == 6002
ErrCodeSuspiciousActivity == 6003

ErrorCodes ==
  {ErrCodeConnectionRefused, ErrCodeConnectionTimeout,
   ErrCodeConnectionLost, ErrCodeHandshakeFailed, ErrCodeInvalidURL,
   ErrCodeTLSError, ErrCodeDNSError, ErrCodeMessageTooLarge,
   ErrCodeInvalidMessage, ErrCodeSendTimeout, ErrCodeReceiveTimeout,
   ErrCodeEncodingError, ErrCodeMaxRetriesExceeded, ErrCodeRetryTimeout,
   ErrCodeInvalidConfig, ErrCodeMissingParameter, ErrCodeFileSystemError,
   ErrCodeMemoryError, ErrCodeUnknownError, ErrCodeSecurityViolation,
   ErrCodeRateLimitExceeded, ErrCodeSuspiciousActivity}

\* RecoveryStrategy
RecoveryNone == "None"
RecoveryRetry == "Retry"
RecoveryReconnect == "Reconnect"
RecoveryReset == "Reset"
RecoveryFallback == "Fallback"

\* the predefined error values that errors.Is looks for
ErrConnectionFailed == "ErrConnectionFailed"
ErrConnectionClosed == "ErrConnectionClosed"
ErrHandshakeTimeout == "ErrHandshakeTimeout"
ErrReadTimeout == "ErrReadTimeout"
ErrWriteTimeout == "ErrWriteTimeout"

\* further error texts: of the resolver, of the TLS layer, of the checks
\* of SendMessage
ErrNoSuchHost == "no such host"
ErrTLS == "tls: bad record MAC"
ErrTextRateLimit == "rate limit text"
ErrTextSecurity == "security check text"
ErrTextValidation == "validation text"

\* MaxMessageSize, in bytes
MaxMessageSize == 32768

\* the capacity of the error trend kept by recordError
MaxErrorTrend == 1000

\* NewRateLimiter(100, time.Minute): requests allowed in one window
MaxRequests == 100

\* DefaultRetryDelay, in seconds
RetryDelay == 3

\* the window of NewRateLimiter(100, time.Minute), in seconds
TimeWindow == 60

\* DefaultPingInterval and ReadTimeout, in seconds
DefaultPingInterval == 30
ReadTimeout == 60

VARIABLES
  cfg,            \* ClientConfig (immutable after construction)
  state,          \* c.State
  conn,           \* c.conn: NoConn (nil) or a handle
  ctxDone,        \* c.ctx is cancelled
  mu,             \* holder of c.mu's write lock, "" when free
  writeMu,        \* holder of c.writeMu, "" when free
  wg,             \* counter of c.wg
  RetryCount,     \* c.RetryCount
  ReconnectCount, \* c.Stats.ReconnectCount
  logFile,        \* c.logFile # nil
  logOpen,        \* the audit log file descriptor is open
  footers,        \* session-end markers written to the audit log
  metricsServer,  \* c.metricsServer # nil
  healthServer,   \* c.healthServer # nil
  shutdowns,      \* Shutdown calls made, per telemetry server
  panicked,       \* a goroutine panicked: the process is dead
  inflight,       \* transport writes in progress: <<process, handle>>
  closedH,        \* handles on which Close() was called
  closeCnt,       \* number of Close() calls, per handle
  closeFrames,    \* close frames written, per process
  pc,             \* position of every goroutine
  newConn,        \* supervisor: result of establishConnection
  rconn,          \* reader: conn of the current loop iteration
  wconn,          \* writers: conn returned by getConnSafely
  readDone,       \* the readDone channel of the current session is closed
  late,           \* history: this Stop call began after another had returned
  dials,          \* dial attempts made
  frames,         \* frames delivered by the peer
  pings,          \* heartbeat ticks taken
  sends,          \* SendMessage calls made by the user goroutine
  lines,          \* lines read from stdin
  env,            \* the peer: dials and frames it takes part in, dial errors
  err,            \* supervisor: error returned by establishConnection
  rmsg,           \* reader: frame returned by conn.ReadMessage
  ErrorsByCode,   \* c.errorStats.ErrorsByCode
  gap,            \* history: delays waited since the last dial
  lastDial,       \* history: the last dial, with the delays waited before it
  received,       \* history: frames returned by successful reads
  processed,      \* history: frames handed to ProcessMessage
  Stats,          \* c.Stats: message and byte counters
  Errors,         \* c.Stats.Errors: TotalErrors and ErrorTrend
  metrics,        \* c.metrics: the counters exported by /metrics
  exported,       \* history: the counters of the last /metrics reply, the
                  \* number of these replies, the replies of /health, /ready
  smsg,           \* senders: the message passed to SendMessage, its error
  rateLimiter,    \* c.rateLimiter: requests, blockedUntil, the callers at
                  \* rl.mu.Lock(); history: the admissions of the last
                  \* window, the time of the last violation
  clock,          \* time: now, the read deadline, the next heartbeat tick
  sel,            \* an error handed to the recovery selector, and its verdict
  frameLog        \* history: live readers, running and past on-message calls

vars ==
  <<cfg, state, conn, ctxDone, mu, writeMu, wg, RetryCount, ReconnectCount,
    logFile, logOpen, footers, metricsServer, healthServer, shutdowns,
    panicked, inflight, closedH, closeCnt, closeFrames, pc, newConn, rconn,
    wconn, readDone, late, dials, frames, pings, sends, lines, env, err,
    rmsg, ErrorsByCode, gap, lastDial, received, processed, Stats, Errors,
    metrics, exported, smsg, rateLimiter, clock, sel, frameLog>>

\* groups of variables, for UNCHANGED
connVars == <<conn, closedH, closeCnt>>
logVars == <<logFile, logOpen, footers>>
srvVars == <<metricsServer, healthServer, shutdowns>>
envVars == <<dials, frames, pings, sends, lines, env>>
locVars == <<newConn, rconn, wconn, late, err>>
bookVars == <<Stats, Errors, metrics, exported>>
sendVars == <<smsg, rateLimiter>>

Goto(p, l) == pc' = [pc EXCEPT ![p] = l]

\* a panic (nil-pointer dereference) ends the process: every goroutine dies
Panic ==
  /\ panicked' = TRUE
  /\ pc' = [p \in Procs |-> "dead"]

\* ------------------------------------------------------------- configuration
\* ClientConfig: -r N, -d, -i, -l, --metrics; no option changes the
\* PingInterval and the ReadTimeout that NewDefaultConfig sets
Config(n, noPing, inter, log, met) ==
  [MaxRetries |-> n, DisableAutoPing |-> noPing, Interactive |-> inter,
   LogFile |-> log, MetricsEnabled |-> met,
   PingInterval |-> DefaultPingInterval, ReadTimeout |-> ReadTimeout]

\* ConnectionStats and PrometheusMetrics of a new client
NoStats ==
  [MessagesSent |-> 0, BytesSent |-> 0, MessagesReceived |-> 0,
   BytesReceived |-> 0]

NoMetrics ==
  [MessagesSentTotal |-> 0, BytesSentTotal |-> 0,
   MessagesReceivedTotal |-> 0, BytesReceivedTotal |-> 0,
   ReconnectionsTotal |-> 0, ErrorsTotal |-> 0,
   ConnectionsTotal |-> 0, ConnectionsActive |-> 0]

\* a message handed to SendMessage: its type is one of the five frame
\* types or not, its length, and whether its text holds a blocked pattern;
\* code is the error SendMessage returned for it (0: none)
Message(valid, size, blocked) ==
  [validType |-> valid, size |-> size, blocked |-> blocked, code |-> 0]

NoMessage == Message(TRUE, 0, FALSE)

\* the clock: the time since the client was made, in seconds, the read
\* deadline of the connection, the time of the next tick of the ping
\* ticker and the times at which the pongs on their way arrive
NoClock == [now |-> 0, deadline |-> 0, nextPing |-> 0, pongs |-> {}]

\* no error was handed to the recovery selector
NoSel ==
  [err |-> [conn |-> FALSE, Code |-> 0, text |-> NoErr, Retry |-> FALSE],
   can |-> FALSE, strategy |-> ""]

\* the peer of a scenario: it takes part in d dials and f frames, and the
\* dials it fails return an error of one of the kinds in E; it can make
\* reads and writes on an open connection fail; the frames in
\* oversize are longer than MaxMessageSize; the heartbeat takes pings
\* ticks, which are bound to the clock if timed, and the peer then answers
\* a ping within latency seconds; the user goroutine calls
\* SendMessage sends times, and msgs are the messages the callers pass
Peer(d, f, E) ==
  [dials |-> d, frames |-> f, dialErrors |-> E, accepts |-> TRUE,
   readErrors |-> {ErrTimeout}, writeErrors |-> TRUE, oversize |-> {},
   sends |-> MaxSends, pings |-> MaxPings, timed |-> FALSE, latency |-> 0,
   msgs |-> {Message(TRUE, 1, FALSE), Message(FALSE, 1, FALSE)}]

\* what happened since the last dial: the delays waited by waitForRetry
\* (policy) and by the error recovery (recovery), and whether a network
\* error, which GetRecoveryStrategy maps to RecoveryReconnect, occurred
NoGap == [policy |-> 0, recovery |-> 0, netErr |-> FALSE]

\* createClientInstance + finalizeInitialization, for a configuration in C,
\* a user goroutine that sends (or not), the goroutines in S, which call
\* Stop or serve /metrics, and the peer P
InitClient(C, userSends, S, P) ==
  /\ cfg \in C
  /\ env = P
  /\ err = NoErr
  /\ rmsg = 0
  /\ ErrorsByCode = [c \in ErrorCodes |-> 0]
  /\ gap = NoGap
  /\ lastDial = [attempt |-> 0, policy |-> 0, recovery |-> 0,
                 afterSession |-> FALSE]
  /\ received = <<>>
  /\ processed = <<>>
  /\ Stats = NoStats
  /\ Errors = [TotalErrors |-> 0, ErrorTrend |-> <<>>]
  /\ metrics = NoMetrics
  /\ exported = [last |-> NoMetrics, replies |-> 0, http |-> <<>>]
  /\ smsg = [p \in Senders |-> NoMessage]
  /\ rateLimiter = [requests |-> <<>>, blockedUntil |-> 0, callers |-> {},
                    admitted |-> <<>>, rejectedAt |-> -1]
  /\ clock = NoClock
  /\ frameLog = [readers |-> 0, active |-> 0, onMessage |-> <<>>]
  /\ state = StateDisconnected
  /\ conn = NoConn
  /\ ctxDone = FALSE
  /\ mu = ""
  /\ writeMu = ""
  /\ wg = 0
  /\ RetryCount = 0
  /\ ReconnectCount = 0
  /\ logFile = cfg.LogFile
  /\ logOpen = cfg.LogFile
  /\ footers = 0
  /\ metricsServer = cfg.MetricsEnabled
  /\ healthServer = cfg.MetricsEnabled
  /\ shutdowns = [s \in {"metrics", "health"} |-> 0]
  /\ panicked = FALSE
  /\ inflight = {}
  /\ closedH = {}
  /\ closeCnt = [h \in Handles |-> 0]
  /\ closeFrames = [p \in Procs |-> 0]
  /\ pc = [p \in Procs |->
            CASE p = Sup -> "sv_start"
              [] p = Inter -> IF cfg.Interactive THEN "it_add" ELSE "off"
              [] p = User -> IF userSends THEN "sn_idle" ELSE "off"
              [] p \in S \cap Stoppers -> "st_idle"
              [] p \in S \cap Tele -> "tm_idle"
              [] OTHER -> "off"]
  /\ newConn = NoConn
  /\ rconn = NoConn
  /\ wconn = [p \in Procs |-> NoConn]
  /\ readDone = FALSE
  /\ late = [p \in Stoppers |-> FALSE]
  /\ dials = 0
  /\ frames = 0
  /\ pings = 0
  /\ sends = 0
  /\ lines = 0

\* a client that has handed no error to the recovery selector
InitEnv(C, userSends, S, P) ==
  /\ sel = NoSel
  /\ InitClient(C, userSends, S, P)

\* a scenario whose peer takes part in MaxDials dials and MaxFrames frames
InitWith(C, userSends, S) ==
  InitEnv(C, userSends, S, Peer(MaxDials, MaxFrames, {ErrRefused}))

\* a session with heartbeat and a sending user, stopped by one Stop call
Init ==
  InitWith({Config(1, FALSE, FALSE, TRUE, TRUE)},
           TRUE, {"stop1"})

\* ------------------------------------------------------------------ helpers
\* setState: atomic.StoreInt32(&c.State, ...)
setState(s) == state' = s

\* isConnected: GetState() == StateConnected
isConnected == state = StateConnected

\* getConnSafely: under c.mu.RLock, returns (c.conn, State == Connected)
getConnSafely == [conn |-> conn, connected |-> state = StateConnected]

\* a read lock of c.mu can be taken: no writer holds it
CanRLock == mu = ""

\* shouldStopRetrying without the case of unlimited retries
shouldStopRetrying_NoZeroCase(rc) ==
  LET totalLimit == cfg.MaxRetries * 2
  IN  rc >= totalLimit

\* shouldStopRetrying, for the retry count rc
shouldStopRetrying(rc) ==
  IF cfg.MaxRetries = 0 THEN FALSE
  ELSE LET totalLimit == cfg.MaxRetries * 2
       IN  totalLimit > 0 /\ rc >= totalLimit

\* calculateRetryDelay, for the retry count rc: no delay up to the fast
\* limit, the configured RetryDelay after it
calculateRetryDelay(rc) ==
  LET fastLimit == IF cfg.MaxRetries = 0 THEN 5 ELSE cfg.MaxRetries
  IN  IF rc <= fastLimit THEN 0 ELSE RetryDelay

\* isNetworkError: the error text matches a network pattern
isNetworkError(e) == e \in {ErrRefused, ErrBrokenPipe, ErrTimeout, ErrNoSuchHost}

\* an error value: a *ConnectionError with its Code and Retry flag around
\* an error text (conn), or the error text alone
ConnectionError(code, text, retry) ==
  [conn |-> TRUE, Code |-> code, text |-> text, Retry |-> retry]

PlainError(text) == [conn |-> FALSE, Code |-> 0, text |-> text, Retry |-> FALSE]

\* errors.Is(e, target): e, or the error a *ConnectionError unwraps to, is
\* the predefined value
Is(e, target) == e.text = target

\* DefaultErrorRecovery.CanRecover
CanRecover(e) ==
  IF ~e.conn /\ e.text = NoErr THEN FALSE
  ELSE IF isNetworkError(e.text) THEN TRUE
  ELSE IF Is(e, ErrConnectionClosed) THEN TRUE
  ELSE IF Is(e, ErrConnectionFailed) THEN TRUE
  ELSE IF Is(e, ErrHandshakeTimeout) THEN TRUE
  ELSE IF Is(e, ErrReadTimeout) THEN TRUE
  ELSE IF Is(e, ErrWriteTimeout) THEN TRUE
  ELSE IF e.conn THEN e.Retry
  ELSE FALSE

\* DefaultErrorRecovery.GetRecoveryStrategy
GetRecoveryStrategy(e) ==
  IF ~e.conn /\ e.text = NoErr THEN RecoveryNone
  ELSE IF isNetworkError(e.text) THEN RecoveryReconnect
  ELSE IF Is(e, ErrConnectionClosed) THEN RecoveryReconnect
  ELSE IF Is(e, ErrHandshakeTimeout) THEN RecoveryRetry
  ELSE IF Is(e, ErrReadTimeout) \/ Is(e, ErrWriteTimeout) THEN RecoveryReset
  ELSE IF e.conn
       THEN CASE e.Code \in {ErrCodeConnectionRefused,
                             ErrCodeConnectionTimeout} -> RecoveryReconnect
              [] e.Code \in {ErrCodeSendTimeout,
                             ErrCodeReceiveTimeout} -> RecoveryRetry
              [] e.Code = ErrCodeMessageTooLarge -> RecoveryFallback
              [] OTHER -> RecoveryRetry
       ELSE RecoveryRetry

\* inferErrorCode: by the text of the error
inferErrorCode(e) ==
  CASE e = ErrRefused -> ErrCodeConnectionRefused
    [] e = ErrTimeout -> ErrCodeConnectionTimeout
    [] e = ErrNoSuchHost -> ErrCodeDNSError
    [] e = ErrTLS -> ErrCodeTLSError
    [] e = ErrHandshake -> ErrCodeHandshakeFailed
    [] e = ErrBrokenPipe -> ErrCodeConnectionLost
    [] OTHER -> ErrCodeUnknownError

\* extractErrorCode: the Code of a *ConnectionError, else inferErrorCode
extractErrorCode(e) == IF e.conn THEN e.Code ELSE inferErrorCode(e.text)

\* recordError without the count of the kind
recordError_NoKind(code) ==
  /\ UNCHANGED ErrorsByCode
  /\ metrics' = [metrics EXCEPT !.ErrorsTotal = @ + 1]
  /\ LET trend == Append(Errors.ErrorTrend,
                         [Timestamp |-> Errors.TotalErrors + 1,
                          ErrorCode |-> code])
     IN  Errors' =
           [TotalErrors |-> Errors.TotalErrors + 1,
            ErrorTrend |->
              IF Len(trend) > MaxErrorTrend
                THEN SubSeq(trend, Len(trend) - MaxErrorTrend + 1, Len(trend))
                ELSE trend]

\* recordError with a trend cut to its first MaxErrorTrend points
recordError_DropNewest(code) ==
  /\ ErrorsByCode' = [ErrorsByCode EXCEPT ![code] = @ + 1]
  /\ metrics' = [metrics EXCEPT !.ErrorsTotal = @ + 1]
  /\ LET trend == Append(Errors.ErrorTrend,
                         [Timestamp |-> Errors.TotalErrors + 1,
                          ErrorCode |-> code])
     IN  Errors' =
           [TotalErrors |-> Errors.TotalErrors + 1,
            ErrorTrend |->
              IF Len(trend) > MaxErrorTrend
                THEN SubSeq(trend, 1, MaxErrorTrend)
                ELSE trend]

\* recordError, under c.mu: TotalErrors++, ErrorsByCode[code]++,
\* metrics.ErrorsTotal++, and a point appended to the trend, which keeps its
\* last MaxErrorTrend points.  Timestamp is the number of the recording:
\* recordings are serial under c.mu, so their clock readings are in this
\* order
recordError(code) ==
  /\ ErrorsByCode' = [ErrorsByCode EXCEPT ![code] = @ + 1]
  /\ metrics' = [metrics EXCEPT !.ErrorsTotal = @ + 1]
  /\ LET trend == Append(Errors.ErrorTrend,
                         [Timestamp |-> Errors.TotalErrors + 1,
                          ErrorCode |-> code])
     IN  Errors' =
           [TotalErrors |-> Errors.TotalErrors + 1,
            ErrorTrend |->
              IF Len(trend) > MaxErrorTrend
                THEN SubSeq(trend, Len(trend) - MaxErrorTrend + 1, Len(trend))
                ELSE trend]

\* updateStats, under c.mu: the counters of c.Stats and, by atomic adds,
\* those of c.metrics
updateStats(dataLen, sent) ==
  IF sent
    THEN /\ Stats' = [Stats EXCEPT !.MessagesSent = @ + 1,
                                   !.BytesSent = @ + dataLen]
         /\ metrics' = [metrics EXCEPT !.MessagesSentTotal = @ + 1,
                                       !.BytesSentTotal = @ + dataLen]
    ELSE /\ Stats' = [Stats EXCEPT !.MessagesReceived = @ + 1,
                                   !.BytesReceived = @ + dataLen]
         /\ metrics' = [metrics EXCEPT !.MessagesReceivedTotal = @ + 1,
                                       !.BytesReceivedTotal = @ + dataLen]

\* the length of the n-th frame the peer sends
FrameSize(n) == IF n \in env.oversize THEN MaxMessageSize + 1 ELSE 1

\* the times of a sequence that lie in the window that ends now
InWindow(times) == SelectSeq(times, LAMBDA t : t > clock.now - TimeWindow)

\* RateLimiter.Allow, the result: not in the blocked period, and fewer than
\* maxRequests requests are left after those before the cutoff are dropped
Allow ==
  /\ ~(clock.now < rateLimiter.blockedUntil)
  /\ Len(InWindow(rateLimiter.requests)) < MaxRequests

\* RateLimiter.Allow whose violation starts no blocked period
AllowCalled_NoBlock ==
  IF clock.now < rateLimiter.blockedUntil THEN rateLimiter
  ELSE IF Len(InWindow(rateLimiter.requests)) >= MaxRequests
    THEN [rateLimiter EXCEPT !.requests = InWindow(@),
                             !.rejectedAt = clock.now]
    ELSE [rateLimiter EXCEPT !.requests = Append(InWindow(@), clock.now),
                             !.admitted = Append(InWindow(@), clock.now)]

\* RateLimiter.Allow, the limiter after the call, all under rl.mu: in the
\* blocked period nothing changes; else the expired requests are dropped
\* and the call is either a violation, which blocks for one window, or is
\* appended to the requests
AllowCalled ==
  IF clock.now < rateLimiter.blockedUntil THEN rateLimiter
  ELSE IF Len(InWindow(rateLimiter.requests)) >= MaxRequests
    THEN [rateLimiter EXCEPT !.requests = InWindow(@),
                             !.blockedUntil = clock.now + TimeWindow,
                             !.rejectedAt = clock.now]
    ELSE [rateLimiter EXCEPT !.requests = Append(InWindow(@), clock.now),
                             !.admitted = Append(InWindow(@), clock.now)]

\* SecurityChecker.CheckMessage returns nil
CheckMessage(m) == ~(m.size > MaxMessageSize) /\ ~m.blocked

\* DefaultMessageProcessor.ValidateMessage returns nil
ValidateMessage(m) == m.validType /\ ~(m.size > MaxMessageSize)

\* conn.SetReadDeadline(time.Now().Add(ReadTimeout))
SetReadDeadline == [clock EXCEPT !.deadline = clock.now + ReadTimeout]

\* resetTimeout: re-arms the read deadline of c.conn, unless it is nil
resetTimeout == IF conn # NoConn THEN SetReadDeadline ELSE clock

\* conn.WriteMessage / conn.WriteControl starts on handle h
BeginWrite(p, h) ==
  inflight' = IF h \in closedH THEN inflight ELSE inflight \cup {<<p, h>>}

\* the write of process p returns
EndWrite(p) == inflight' = {w \in inflight : w[1] # p}

\* conn.Close() on handle h
CloseHandle(h) ==
  /\ closedH' = closedH \cup {h}
  /\ closeCnt' = [closeCnt EXCEPT ![h] = @ + 1]

\* ================================================================ supervisor
\* Start: spawns the heartbeat goroutine unless auto-ping is disabled
Start ==
  /\ pc[Sup] = "sv_start"
  /\ pc' = [pc EXCEPT ![Sup] = "sv_loop",
                      ![Hb] = IF cfg.DisableAutoPing THEN @ ELSE "hb_add"]
  /\ UNCHANGED <<cfg, state, ctxDone, mu, writeMu, wg, RetryCount,
                 ReconnectCount, panicked, inflight, closeFrames, readDone,
                 connVars, logVars, srvVars, envVars, locVars,
                 gap, lastDial, ErrorsByCode, received, processed, rmsg,
                 bookVars, sendVars, clock, sel, frameLog>>

\* Start, with a loop head that does not look at ctx.Done
StartLoop_NoCancelCheck ==
  /\ pc[Sup] = "sv_loop"
  /\ dials < env.dials /\ Goto(Sup, "sv_connect")
  /\ UNCHANGED <<cfg, state, ctxDone, mu, writeMu, wg, RetryCount,
                 ReconnectCount, panicked, inflight, closeFrames, readDone,
                 connVars, logVars, srvVars, envVars, locVars,
                 gap, lastDial, ErrorsByCode, received, processed, rmsg,
                 bookVars, sendVars, clock, sel, frameLog>>

\* Start: head of the for/select loop
StartLoop ==
  /\ pc[Sup] = "sv_loop"
  /\ IF ctxDone THEN Goto(Sup, "sv_exit")
     ELSE dials < env.dials /\ Goto(Sup, "sv_connect")
  /\ UNCHANGED <<cfg, state, ctxDone, mu, writeMu, wg, RetryCount,
                 ReconnectCount, panicked, inflight, closeFrames, readDone,
                 connVars, logVars, srvVars, envVars, locVars,
                 gap, lastDial, ErrorsByCode, received, processed, rmsg,
                 bookVars, sendVars, clock, sel, frameLog>>

\* Connect: setState(StateConnecting)
Connect ==
  /\ pc[Sup] = "sv_connect"
  /\ setState(StateConnecting)
  /\ Goto(Sup, "sv_dial")
  /\ UNCHANGED <<cfg, ctxDone, mu, writeMu, wg, RetryCount,
                 ReconnectCount, panicked, inflight, closeFrames, readDone,
                 connVars, logVars, srvVars, envVars, locVars,
                 gap, lastDial, ErrorsByCode, received, processed, rmsg,
                 bookVars, sendVars, clock, sel, frameLog>>

\* establishConnection: the dial returns; with the context already cancelled
\* it fails, otherwise the peer decides
establishConnection ==
  /\ pc[Sup] = "sv_dial"
  /\ dials' = dials + 1
  /\ \E ok \in BOOLEAN :
       /\ ctxDone \/ ~env.accepts => ~ok
       /\ lastDial' = [attempt |-> RetryCount + 1, policy |-> gap.policy,
                       recovery |-> gap.recovery,
                       afterSession |-> newConn # NoConn]
       /\ IF ok THEN /\ newConn' = dials + 1
                     /\ err' = NoErr
                     /\ Goto(Sup, "sv_setup")
                ELSE /\ newConn' = NoConn
                     /\ err' \in (IF ctxDone THEN {ErrCanceled}
                                              ELSE env.dialErrors)
                     /\ Goto(Sup, "sv_connerr")
  /\ gap' = [NoGap EXCEPT !.netErr = isNetworkError(err')]
  /\ UNCHANGED <<cfg, state, ctxDone, mu, writeMu, wg, RetryCount,
                 ReconnectCount, panicked, inflight, closeFrames, readDone,
                 connVars, logVars, srvVars, frames, pings, sends, lines, env,
                 rconn, wconn, late,
                 ErrorsByCode, received, processed, rmsg,
                 bookVars, sendVars, clock, sel, frameLog>>

\* handleConnectionError: setState(StateDisconnected)
handleConnectionError ==
  /\ pc[Sup] = "sv_connerr"
  /\ setState(StateDisconnected)
  /\ Goto(Sup, "sv_recover")
  /\ UNCHANGED <<cfg, ctxDone, mu, writeMu, wg, RetryCount,
                 ReconnectCount, panicked, inflight, closeFrames, readDone,
                 connVars, logVars, srvVars, envVars, locVars,
                 gap, lastDial, ErrorsByCode, received, processed, rmsg,
                 bookVars, sendVars, clock, sel, frameLog>>

\* handleConnectionError without the call of recordError
attemptErrorRecovery_NoRecord ==
  /\ pc[Sup] = "sv_recover"
  /\ mu = ""
  /\ Goto(Sup, IF CanRecover(PlainError(err)) THEN "sv_recwait"
                 ELSE "sv_retry")
  /\ UNCHANGED <<cfg, state, ctxDone, mu, writeMu, wg, RetryCount,
                 ReconnectCount, panicked, inflight, closeFrames, readDone,
                 connVars, logVars, srvVars, envVars, locVars,
                 gap, lastDial, ErrorsByCode, received, processed, rmsg,
                 bookVars, sendVars, clock, sel, frameLog>>

\* handleConnectionError: recordError (under c.mu), then
\* attemptErrorRecovery, which recovers the errors CanRecover accepts
attemptErrorRecovery ==
  /\ pc[Sup] = "sv_recover"
  /\ mu = ""
  /\ recordError(extractErrorCode(PlainError(err)))
  /\ Goto(Sup, IF CanRecover(PlainError(err)) THEN "sv_recwait"
                 ELSE "sv_retry")
  /\ UNCHANGED <<cfg, state, ctxDone, mu, writeMu, wg, RetryCount,
                 ReconnectCount, panicked, inflight, closeFrames, readDone,
                 connVars, logVars, srvVars, envVars, locVars,
                 gap, lastDial, received, processed, rmsg,
                 Stats, exported, sendVars, clock, sel, frameLog>>

\* Recover -> reconnectOperation: select on ctx.Done and
\* time.After(der.retryDelay); it changes nothing of the client
reconnectOperation ==
  /\ pc[Sup] = "sv_recwait"
  /\ \/ ctxDone /\ UNCHANGED gap
     \/ gap' = [gap EXCEPT !.recovery = RetryDelay]
  /\ Goto(Sup, "sv_retry")
  /\ UNCHANGED <<cfg, state, ctxDone, mu, writeMu, wg, RetryCount,
                 ReconnectCount, panicked, inflight, closeFrames, readDone,
                 connVars, logVars, srvVars, envVars, locVars,
                 lastDial, ErrorsByCode, received, processed, rmsg,
                 bookVars, sendVars, clock, sel, frameLog>>

\* attemptConnection, failure branch: count the retry, check the limit
attemptConnectionFailed ==
  /\ pc[Sup] = "sv_retry"
  /\ RetryCount' = RetryCount + 1
  /\ IF shouldStopRetrying(RetryCount + 1)
       THEN Goto(Sup, "sv_exit") /\ gap' = NoGap
       ELSE Goto(Sup, "sv_wait") /\ UNCHANGED gap
  /\ UNCHANGED <<cfg, state, ctxDone, mu, writeMu, wg,
                 ReconnectCount, panicked, inflight, closeFrames, readDone,
                 connVars, logVars, srvVars, envVars, locVars,
                 lastDial, ErrorsByCode, received, processed, rmsg,
                 bookVars, sendVars, clock, sel, frameLog>>

\* waitForRetry: select on ctx.Done and time.After(delay)
waitForRetry ==
  /\ pc[Sup] = "sv_wait"
  /\ \/ ctxDone /\ Goto(Sup, "sv_exit") /\ UNCHANGED gap
     \/ /\ gap' = [gap EXCEPT !.policy = calculateRetryDelay(RetryCount)]
        /\ Goto(Sup, "sv_loop")
  /\ UNCHANGED <<cfg, state, ctxDone, mu, writeMu, wg, RetryCount,
                 ReconnectCount, panicked, inflight, closeFrames, readDone,
                 connVars, logVars, srvVars, envVars, locVars,
                 lastDial, ErrorsByCode, received, processed, rmsg,
                 bookVars, sendVars, clock, sel, frameLog>>

\* setupConnection that counts the connections after the first one only
setupConnection_CountsReconnects ==
  /\ pc[Sup] = "sv_setup"
  /\ mu = ""
  /\ IF conn # NoConn
       THEN /\ CloseHandle(conn)
            /\ closeFrames' = [closeFrames EXCEPT ![Sup] = @ + 1]
       ELSE UNCHANGED <<closedH, closeCnt, closeFrames>>
  /\ conn' = newConn
  /\ ReconnectCount' = IF closedH = {} THEN ReconnectCount
                                         ELSE ReconnectCount + 1
  /\ clock' = SetReadDeadline
  /\ setState(StateConnected)
  /\ Goto(Sup, "sv_reset")
  /\ UNCHANGED <<cfg, ctxDone, mu, writeMu, wg, RetryCount,
                 panicked, inflight, readDone,
                 logVars, srvVars, envVars, locVars,
                 gap, lastDial, ErrorsByCode, received, processed, rmsg,
                 bookVars, sendVars, sel, frameLog>>

\* setupConnection, under c.mu: close the old handle if any, install the
\* new one, setupPingPongHandlers arms its read deadline,
\* setState(StateConnected)
setupConnection ==
  /\ pc[Sup] = "sv_setup"
  /\ mu = ""
  /\ IF conn # NoConn
       THEN /\ CloseHandle(conn)
            /\ closeFrames' = [closeFrames EXCEPT ![Sup] = @ + 1]
       ELSE UNCHANGED <<closedH, closeCnt, closeFrames>>
  /\ conn' = newConn
  /\ ReconnectCount' = ReconnectCount + 1
  /\ clock' = SetReadDeadline
  /\ setState(StateConnected)
  /\ Goto(Sup, "sv_reset")
  /\ UNCHANGED <<cfg, ctxDone, mu, writeMu, wg, RetryCount,
                 panicked, inflight, readDone,
                 logVars, srvVars, envVars, locVars,
                 gap, lastDial, ErrorsByCode, received, processed, rmsg,
                 bookVars, sendVars, sel, frameLog>>

\* attemptConnection, success branch, without the reset of c.RetryCount
attemptConnectionOk_NoReset ==
  /\ pc[Sup] = "sv_reset"
  /\ Goto(Sup, "sv_session")
  /\ UNCHANGED <<cfg, state, ctxDone, mu, writeMu, wg, RetryCount,
                 ReconnectCount, panicked, inflight, closeFrames, readDone,
                 connVars, logVars, srvVars, envVars, locVars,
                 gap, lastDial, ErrorsByCode, received, processed, rmsg,
                 bookVars, sendVars, clock, sel, frameLog>>

\* attemptConnection, success branch: atomic.StoreInt32(&c.RetryCount, 0)
attemptConnectionOk ==
  /\ pc[Sup] = "sv_reset"
  /\ RetryCount' = 0
  /\ Goto(Sup, "sv_session")
  /\ UNCHANGED <<cfg, state, ctxDone, mu, writeMu, wg,
                 ReconnectCount, panicked, inflight, closeFrames, readDone,
                 connVars, logVars, srvVars, envVars, locVars,
                 gap, lastDial, ErrorsByCode, received, processed, rmsg,
                 bookVars, sendVars, clock, sel, frameLog>>

\* handleConnectedSession: wg.Add(1) and spawn the reader goroutine
handleConnectedSession ==
  /\ pc[Sup] = "sv_session"
  /\ wg' = wg + 1
  /\ readDone' = FALSE
  /\ pc' = [pc EXCEPT ![Sup] = "sv_await", ![Reader] = "rd_check"]
  /\ frameLog' = [frameLog EXCEPT !.readers = @ + 1]
  /\ UNCHANGED <<cfg, state, ctxDone, mu, writeMu, RetryCount,
                 ReconnectCount, panicked, inflight, closeFrames,
                 connVars, logVars, srvVars, envVars, locVars,
                 gap, lastDial, ErrorsByCode, received, processed, rmsg,
                 bookVars, sendVars, clock, sel>>

\* handleConnectedSession returning without a look at readDone
awaitSession_NoWait ==
  /\ pc[Sup] = "sv_await"
  /\ IF ctxDone THEN Goto(Sup, "sv_exit") ELSE Goto(Sup, "sv_loop")
  /\ UNCHANGED <<cfg, state, ctxDone, mu, writeMu, wg, RetryCount,
                 ReconnectCount, panicked, inflight, closeFrames, readDone,
                 connVars, logVars, srvVars, envVars, locVars,
                 gap, lastDial, ErrorsByCode, received, processed, rmsg,
                 bookVars, sendVars, clock, sel, frameLog>>

\* handleConnectedSession: select on ctx.Done and readDone (with the second
\* check of ctx.Done after readDone)
awaitSession ==
  /\ pc[Sup] = "sv_await"
  /\ ctxDone \/ readDone
  /\ IF ctxDone THEN Goto(Sup, "sv_exit") ELSE Goto(Sup, "sv_loop")
  /\ UNCHANGED <<cfg, state, ctxDone, mu, writeMu, wg, RetryCount,
                 ReconnectCount, panicked, inflight, closeFrames, readDone,
                 connVars, logVars, srvVars, envVars, locVars,
                 gap, lastDial, ErrorsByCode, received, processed, rmsg,
                 bookVars, sendVars, clock, sel, frameLog>>

\* Start: the deferred c.cancel()
StartExit ==
  /\ pc[Sup] = "sv_exit"
  /\ ctxDone' = TRUE
  /\ Goto(Sup, "sv_done")
  /\ UNCHANGED <<cfg, state, mu, writeMu, wg, RetryCount,
                 ReconnectCount, panicked, inflight, closeFrames, readDone,
                 connVars, logVars, srvVars, envVars, locVars,
                 gap, lastDial, ErrorsByCode, received, processed, rmsg,
                 bookVars, sendVars, clock, sel, frameLog>>

\* ==================================================================== reader
\* shouldContinueReading: ctx.Done, then getConnSafely
shouldContinueReading ==
  /\ pc[Reader] = "rd_check"
  /\ IF ctxDone THEN Goto(Reader, "rd_cleanup")
     ELSE /\ CanRLock
          /\ IF getConnSafely.conn = NoConn \/ ~getConnSafely.connected
               THEN Goto(Reader, "rd_cleanup")
               ELSE Goto(Reader, "rd_get")
  /\ UNCHANGED <<cfg, state, ctxDone, mu, writeMu, wg, RetryCount,
                 ReconnectCount, panicked, inflight, closeFrames, readDone,
                 connVars, logVars, srvVars, envVars, locVars,
                 gap, lastDial, ErrorsByCode, received, processed, rmsg,
                 bookVars, sendVars, clock, sel, frameLog>>

\* ReadMessages: conn, _ := c.getConnSafely(); conn.ReadMessage() on a nil
\* handle is a nil-pointer panic
ReadMessagesGetConn ==
  /\ pc[Reader] = "rd_get"
  /\ CanRLock
  /\ rconn' = getConnSafely.conn
  /\ IF getConnSafely.conn = NoConn
       THEN Panic
       ELSE UNCHANGED panicked /\ Goto(Reader, "rd_read")
  /\ UNCHANGED <<cfg, state, ctxDone, mu, writeMu, wg, RetryCount,
                 ReconnectCount, inflight, closeFrames, readDone,
                 connVars, logVars, srvVars, envVars, newConn, wconn, late, err,
                 gap, lastDial, ErrorsByCode, received, processed, rmsg,
                 bookVars, sendVars, clock, sel, frameLog>>

\* conn.ReadMessage returns a data frame
ReadFrame ==
  /\ pc[Reader] = "rd_read"
  /\ rconn \notin closedH
  /\ frames < env.frames
  /\ frames' = frames + 1
  /\ rmsg' = frames + 1
  /\ received' = Append(received, frames + 1)
  /\ Goto(Reader, "rd_process")
  /\ UNCHANGED <<cfg, state, ctxDone, mu, writeMu, wg, RetryCount,
                 ReconnectCount, panicked, inflight, closeFrames, readDone,
                 connVars, logVars, srvVars, dials, pings, sends, lines, env,
                 locVars,
                 gap, lastDial, ErrorsByCode, processed,
                 bookVars, sendVars, clock, sel, frameLog>>

\* conn.ReadMessage meets a ping frame: the ping handler runs
ReadPing ==
  /\ pc[Reader] = "rd_read"
  /\ rconn \notin closedH
  /\ frames < env.frames
  /\ frames' = frames + 1
  /\ Goto(Reader, "cm_get")
  /\ UNCHANGED <<cfg, state, ctxDone, mu, writeMu, wg, RetryCount,
                 ReconnectCount, panicked, inflight, closeFrames, readDone,
                 connVars, logVars, srvVars, dials, pings, sends, lines, env,
                 locVars,
                 gap, lastDial, ErrorsByCode, received, processed, rmsg,
                 bookVars, sendVars, clock, sel, frameLog>>

\* conn.ReadMessage without the call of the pong handler
ReadPong_NoReset ==
  /\ pc[Reader] = "rd_read"
  /\ rconn \notin closedH
  /\ CanRLock
  /\ \E t \in clock.pongs :
       /\ t <= clock.now
       /\ clock' = [clock EXCEPT !.pongs = @ \ {t}]
  /\ UNCHANGED <<cfg, state, ctxDone, mu, writeMu, wg, RetryCount,
                 ReconnectCount, panicked, inflight, closeFrames, readDone,
                 connVars, logVars, srvVars, envVars, locVars, pc,
                 gap, lastDial, ErrorsByCode, received, processed, rmsg,
                 bookVars, sendVars, sel, frameLog>>

\* conn.ReadMessage meets a pong frame that has arrived: the pong handler
\* calls resetTimeout, and the read goes on
ReadPong ==
  /\ pc[Reader] = "rd_read"
  /\ rconn \notin closedH
  /\ CanRLock
  /\ \E t \in clock.pongs :
       /\ t <= clock.now
       /\ clock' = [resetTimeout EXCEPT !.pongs = @ \ {t}]
  /\ UNCHANGED <<cfg, state, ctxDone, mu, writeMu, wg, RetryCount,
                 ReconnectCount, panicked, inflight, closeFrames, readDone,
                 connVars, logVars, srvVars, envVars, locVars, pc,
                 gap, lastDial, ErrorsByCode, received, processed, rmsg,
                 bookVars, sendVars, sel, frameLog>>

\* a second passes, while the supervisor is in the dial or waits for the
\* end of the session, the reader is in conn.ReadMessage and the heartbeat
\* waits for its ticker; the tick that is due and the pong that has
\* arrived are taken first
Tick ==
  /\ clock.now < MaxTime
  /\ pc[Sup] \in {"sv_dial", "sv_await"}
  /\ pc[Reader] \in {"off", "rd_read"}
  /\ pc[Hb] = "hb_wait"
  /\ clock.now < clock.nextPing
  /\ pc[Reader] = "rd_read" => \A t \in clock.pongs : clock.now < t
  /\ clock' = [clock EXCEPT !.now = @ + 1]
  /\ UNCHANGED <<cfg, state, ctxDone, mu, writeMu, wg, RetryCount,
                 ReconnectCount, panicked, inflight, closeFrames, readDone,
                 connVars, logVars, srvVars, envVars, locVars, pc,
                 gap, lastDial, ErrorsByCode, received, processed, rmsg,
                 bookVars, sendVars, sel, frameLog>>

\* conn.ReadMessage fails because the handle was closed locally
ReadClosed ==
  /\ pc[Reader] = "rd_read"
  /\ rconn \in closedH
  /\ Goto(Reader, "rd_error")
  /\ UNCHANGED <<cfg, state, ctxDone, mu, writeMu, wg, RetryCount,
                 ReconnectCount, panicked, inflight, closeFrames, readDone,
                 connVars, logVars, srvVars, envVars, locVars,
                 gap, lastDial, ErrorsByCode, received, processed, rmsg,
                 bookVars, sendVars, clock, sel, frameLog>>

\* conn.ReadMessage fails: the peer closed, the network failed or the read
\* deadline expired
ReadError ==
  /\ pc[Reader] = "rd_read"
  /\ rconn \notin closedH
  /\ \E e \in env.readErrors :
       gap' = [gap EXCEPT !.netErr = @ \/ isNetworkError(e)]
  /\ Goto(Reader, "rd_error")
  /\ UNCHANGED <<cfg, state, ctxDone, mu, writeMu, wg, RetryCount,
                 ReconnectCount, panicked, inflight, closeFrames, readDone,
                 connVars, logVars, srvVars, envVars, locVars,
                 lastDial, ErrorsByCode, received, processed, rmsg,
                 bookVars, sendVars, clock, sel, frameLog>>

\* handleReadError: setState(StateDisconnected)
handleReadError ==
  /\ pc[Reader] = "rd_error"
  /\ setState(StateDisconnected)
  /\ Goto(Reader, "rd_cleanup")
  /\ UNCHANGED <<cfg, ctxDone, mu, writeMu, wg, RetryCount,
                 ReconnectCount, panicked, inflight, closeFrames, readDone,
                 connVars, logVars, srvVars, envVars, locVars,
                 gap, lastDial, ErrorsByCode, received, processed, rmsg,
                 bookVars, sendVars, clock, sel, frameLog>>

\* processReceivedMessage without the call of ProcessMessage
processReceivedMessage_NoProcess ==
  /\ pc[Reader] = "rd_process"
  /\ mu = ""
  /\ updateStats(FrameSize(rmsg), FALSE)
  /\ clock' = resetTimeout
  /\ Goto(Reader, "rd_callback")
  /\ UNCHANGED <<cfg, state, ctxDone, mu, writeMu, wg, RetryCount,
                 ReconnectCount, panicked, inflight, closeFrames, readDone,
                 connVars, logVars, srvVars, envVars, locVars,
                 gap, lastDial, ErrorsByCode, received, processed, rmsg,
                 Errors, exported, sendVars, sel, frameLog>>

\* processReceivedMessage: resetTimeout and updateStats take c.mu, then
\* messageProcessor.ProcessMessage is called with the frame; it returns an
\* error when ValidateMessage finds the frame longer than MaxMessageSize
processReceivedMessage ==
  /\ pc[Reader] = "rd_process"
  /\ mu = ""
  /\ updateStats(FrameSize(rmsg), FALSE)
  /\ clock' = resetTimeout
  /\ processed' = Append(processed, rmsg)
  /\ Goto(Reader, IF FrameSize(rmsg) > MaxMessageSize THEN "rd_procerr"
                    ELSE "rd_callback")
  /\ UNCHANGED <<cfg, state, ctxDone, mu, writeMu, wg, RetryCount,
                 ReconnectCount, panicked, inflight, closeFrames, readDone,
                 connVars, logVars, srvVars, envVars, locVars,
                 gap, lastDial, ErrorsByCode, received, rmsg,
                 Errors, exported, sendVars, sel, frameLog>>

\* processReceivedMessage, ProcessMessage failed: handleErrorWithRecovery
\* records the error (under c.mu) under the code inferErrorCode finds for
\* its text; CanRecover refuses it, so no recovery runs
handleProcessError ==
  /\ pc[Reader] = "rd_procerr"
  /\ mu = ""
  /\ recordError(extractErrorCode(PlainError(ErrTextValidation)))
  /\ Goto(Reader, "rd_callback")
  /\ UNCHANGED <<cfg, state, ctxDone, mu, writeMu, wg, RetryCount,
                 ReconnectCount, panicked, inflight, closeFrames, readDone,
                 connVars, logVars, srvVars, envVars, locVars,
                 gap, lastDial, received, processed, rmsg,
                 Stats, exported, sendVars, clock, sel, frameLog>>

\* processReceivedMessage: c.onMessage is called with the frame
onMessage ==
  /\ pc[Reader] = "rd_callback"
  /\ frameLog' = [frameLog EXCEPT !.active = @ + 1,
                                  !.onMessage = Append(@, rmsg)]
  /\ Goto(Reader, "rd_inmessage")
  /\ UNCHANGED <<cfg, state, ctxDone, mu, writeMu, wg, RetryCount,
                 ReconnectCount, panicked, inflight, closeFrames, readDone,
                 connVars, logVars, srvVars, envVars, locVars,
                 gap, lastDial, ErrorsByCode, received, processed, rmsg,
                 bookVars, sendVars, clock, sel>>

\* c.onMessage returns, and processReceivedMessage with it
onMessageReturn ==
  /\ pc[Reader] = "rd_inmessage"
  /\ frameLog' = [frameLog EXCEPT !.active = @ - 1]
  /\ Goto(Reader, "rd_check")
  /\ UNCHANGED <<cfg, state, ctxDone, mu, writeMu, wg, RetryCount,
                 ReconnectCount, panicked, inflight, closeFrames, readDone,
                 connVars, logVars, srvVars, envVars, locVars,
                 gap, lastDial, ErrorsByCode, received, processed, rmsg,
                 bookVars, sendVars, clock, sel>>

\* ReadMessages, deferred: setState(StateDisconnected)
ReadMessagesDefer ==
  /\ pc[Reader] = "rd_cleanup"
  /\ setState(StateDisconnected)
  /\ Goto(Reader, "rd_close")
  /\ UNCHANGED <<cfg, ctxDone, mu, writeMu, wg, RetryCount,
                 ReconnectCount, panicked, inflight, closeFrames, readDone,
                 connVars, logVars, srvVars, envVars, locVars,
                 gap, lastDial, ErrorsByCode, received, processed, rmsg,
                 bookVars, sendVars, clock, sel, frameLog>>

\* ReadMessages, deferred, under c.mu: close and clear c.conn
ReadMessagesClose ==
  /\ pc[Reader] = "rd_close"
  /\ mu = ""
  /\ IF conn # NoConn THEN CloseHandle(conn)
     ELSE UNCHANGED <<closedH, closeCnt>>
  /\ conn' = NoConn
  /\ Goto(Reader, "rd_exit")
  /\ UNCHANGED <<cfg, state, ctxDone, mu, writeMu, wg, RetryCount,
                 ReconnectCount, panicked, inflight, closeFrames, readDone,
                 logVars, srvVars, envVars, locVars,
                 gap, lastDial, ErrorsByCode, received, processed, rmsg,
                 bookVars, sendVars, clock, sel, frameLog>>

\* the reader goroutine ends: wg.Done() and close(readDone)
ReaderExit ==
  /\ pc[Reader] = "rd_exit"
  /\ wg' = wg - 1
  /\ readDone' = TRUE
  /\ frameLog' = [frameLog EXCEPT !.readers = @ - 1]
  /\ Goto(Reader, "off")
  /\ UNCHANGED <<cfg, state, ctxDone, mu, writeMu, RetryCount,
                 ReconnectCount, panicked, inflight, closeFrames,
                 connVars, logVars, srvVars, envVars, locVars,
                 gap, lastDial, ErrorsByCode, received, processed, rmsg,
                 bookVars, sendVars, clock, sel>>

\* ======================================================== sendControlMessage
\* callers: the heartbeat (ping) and the reader's ping handler (pong)
ControlReturn(p, ok) ==
  IF p = Hb THEN "hb_wait" ELSE IF ok THEN "rd_read" ELSE "rd_error"

\* sendControlMessage: getConnSafely; "connection closed" when not
\* connected (the ping handler of the reader then calls resetTimeout)
sendControlMessage(p) ==
  /\ pc[p] = "cm_get"
  /\ CanRLock
  /\ IF getConnSafely.conn = NoConn \/ ~getConnSafely.connected
       THEN /\ Goto(p, ControlReturn(p, FALSE))
            /\ clock' = IF p = Reader THEN resetTimeout ELSE clock
            /\ UNCHANGED wconn
       ELSE /\ wconn' = [wconn EXCEPT ![p] = getConnSafely.conn]
            /\ Goto(p, "cm_lock")
            /\ UNCHANGED clock
  /\ UNCHANGED <<cfg, state, ctxDone, mu, writeMu, wg, RetryCount,
                 ReconnectCount, panicked, inflight, closeFrames, readDone,
                 connVars, logVars, srvVars, envVars, newConn, rconn, late, err,
                 gap, lastDial, ErrorsByCode, received, processed, rmsg,
                 bookVars, sendVars, sel, frameLog>>

\* sendControlMessage: c.writeMu.Lock(), conn.WriteControl starts
sendControlLock(p) ==
  /\ pc[p] = "cm_lock"
  /\ writeMu = ""
  /\ writeMu' = p
  /\ BeginWrite(p, wconn[p])
  /\ Goto(p, "cm_write")
  /\ UNCHANGED <<cfg, state, ctxDone, mu, wg, RetryCount,
                 ReconnectCount, panicked, closeFrames, readDone,
                 connVars, logVars, srvVars, envVars, locVars,
                 gap, lastDial, ErrorsByCode, received, processed, rmsg,
                 bookVars, sendVars, clock, sel, frameLog>>

\* sendControlMessage: conn.WriteControl returns, c.writeMu.Unlock(); the
\* ping handler of the reader then calls resetTimeout; a peer bound to the
\* clock answers the ping of the heartbeat with a pong, which is l seconds
\* on its way
sendControlWrite(p) ==
  /\ pc[p] = "cm_write"
  /\ EndWrite(p)
  /\ writeMu' = ""
  /\ \E ok \in BOOLEAN, l \in {0, env.latency} :
       /\ wconn[p] \in closedH => ~ok
       /\ ~ok => wconn[p] \in closedH \/ env.writeErrors
       /\ Goto(p, ControlReturn(p, ok))
       /\ clock' =
            IF p = Reader THEN resetTimeout
            ELSE IF ok /\ env.timed
              THEN [clock EXCEPT !.pongs = @ \cup {clock.now + l}]
              ELSE clock
  /\ UNCHANGED <<cfg, state, ctxDone, mu, wg, RetryCount,
                 ReconnectCount, panicked, closeFrames, readDone,
                 connVars, logVars, srvVars, envVars, locVars,
                 gap, lastDial, ErrorsByCode, received, processed, rmsg,
                 bookVars, sendVars, sel, frameLog>>

\* ================================================================= heartbeat
\* sendPeriodicPing: c.wg.Add(1), inside the goroutine, and
\* time.NewTicker(c.config.PingInterval)
sendPeriodicPing ==
  /\ pc[Hb] = "hb_add"
  /\ wg' = wg + 1
  /\ clock' = [clock EXCEPT !.nextPing = clock.now + cfg.PingInterval]
  /\ Goto(Hb, "hb_wait")
  /\ UNCHANGED <<cfg, state, ctxDone, mu, writeMu, RetryCount,
                 ReconnectCount, panicked, inflight, closeFrames, readDone,
                 connVars, logVars, srvVars, envVars, locVars,
                 gap, lastDial, ErrorsByCode, received, processed, rmsg,
                 bookVars, sendVars, sel, frameLog>>

\* sendPeriodicPing: select on ctx.Done and the ticker, whose ticks are
\* PingInterval apart
PingSelect ==
  /\ pc[Hb] = "hb_wait"
  /\ IF ctxDone THEN Goto(Hb, "hb_exit") /\ UNCHANGED <<pings, clock>>
     ELSE /\ pings < env.pings
          /\ env.timed => clock.now >= clock.nextPing
          /\ pings' = pings + 1
          /\ clock' = [clock EXCEPT !.nextPing = @ + cfg.PingInterval]
          /\ Goto(Hb, "cm_get")
  /\ UNCHANGED <<cfg, state, ctxDone, mu, writeMu, wg, RetryCount,
                 ReconnectCount, panicked, inflight, closeFrames, readDone,
                 connVars, logVars, srvVars, dials, frames, sends, lines, env,
                 locVars,
                 gap, lastDial, ErrorsByCode, received, processed, rmsg,
                 bookVars, sendVars, sel, frameLog>>

\* sendPeriodicPing returns: deferred c.wg.Done()
PingExit ==
  /\ pc[Hb] = "hb_exit"
  /\ wg' = wg - 1
  /\ Goto(Hb, "hb_done")
  /\ UNCHANGED <<cfg, state, ctxDone, mu, writeMu, RetryCount,
                 ReconnectCount, panicked, inflight, closeFrames, readDone,
                 connVars, logVars, srvVars, envVars, locVars,
                 gap, lastDial, ErrorsByCode, received, processed, rmsg,
                 bookVars, sendVars, clock, sel, frameLog>>

\* =============================================================== SendMessage
\* where SendMessage returns to: the user goroutine or the interactive loop
SendReturn(p) == IF p = User THEN "sn_idle" ELSE "it_scan"

\* the user goroutine calls SendMessage
UserSend ==
  /\ pc[User] = "sn_idle"
  /\ sends < env.sends
  /\ sends' = sends + 1
  /\ Goto(User, "sm_check")
  /\ UNCHANGED <<cfg, state, ctxDone, mu, writeMu, wg, RetryCount,
                 ReconnectCount, panicked, inflight, closeFrames, readDone,
                 connVars, logVars, srvVars, dials, frames, pings, lines, env,
                 locVars,
                 gap, lastDial, ErrorsByCode, received, processed, rmsg,
                 bookVars, sendVars, clock, sel, frameLog>>

\* SendMessage, up to the write, for a message m: rateLimiter.Allow,
\* securityChecker.CheckMessage, getConnSafely, ValidateMessage and the
\* length check, in this order; the first that fails gives the Code of the
\* error returned (SetWriteDeadline does not fail)
SendMessage(p) ==
  /\ pc[p] = "sm_check"
  /\ CanRLock
  /\ \E m \in env.msgs :
       LET code ==
             IF ~Allow THEN ErrCodeRateLimitExceeded
             ELSE IF ~CheckMessage(m) THEN ErrCodeSecurityViolation
             ELSE IF getConnSafely.conn = NoConn \/ ~getConnSafely.connected
               THEN ErrCodeConnectionLost
             ELSE IF ~ValidateMessage(m) THEN ErrCodeInvalidMessage
             ELSE IF m.size > MaxMessageSize THEN ErrCodeMessageTooLarge
             ELSE 0
       IN  /\ smsg' = [smsg EXCEPT ![p] = [m EXCEPT !.code = code]]
           /\ rateLimiter' = AllowCalled
           /\ IF code # 0
                THEN Goto(p, "sm_reject") /\ UNCHANGED wconn
                ELSE /\ wconn' = [wconn EXCEPT ![p] = getConnSafely.conn]
                     /\ Goto(p, "sm_lock")
  /\ UNCHANGED <<cfg, state, ctxDone, mu, writeMu, wg, RetryCount,
                 ReconnectCount, panicked, inflight, closeFrames, readDone,
                 connVars, logVars, srvVars, envVars, newConn, rconn, late, err,
                 gap, lastDial, ErrorsByCode, received, processed, rmsg,
                 bookVars, clock, sel, frameLog>>

\* SendMessage, rejected, returning the error without recording it
SendReject_NoRecord(p) ==
  /\ pc[p] = "sm_reject"
  /\ mu = ""
  /\ Goto(p, SendReturn(p))
  /\ UNCHANGED <<cfg, state, ctxDone, mu, writeMu, wg, RetryCount,
                 ReconnectCount, panicked, inflight, closeFrames, readDone,
                 connVars, logVars, srvVars, envVars, locVars,
                 gap, lastDial, ErrorsByCode, received, processed, rmsg,
                 bookVars, sendVars, clock, sel, frameLog>>

\* SendMessage, rejected: recordError (under c.mu) and return
SendReject(p) ==
  /\ pc[p] = "sm_reject"
  /\ mu = ""
  /\ recordError(smsg[p].code)
  /\ Goto(p, SendReturn(p))
  /\ UNCHANGED <<cfg, state, ctxDone, mu, writeMu, wg, RetryCount,
                 ReconnectCount, panicked, inflight, closeFrames, readDone,
                 connVars, logVars, srvVars, envVars, locVars,
                 gap, lastDial, received, processed, rmsg,
                 Stats, exported, sendVars, clock, sel, frameLog>>

\* SendMessage: c.writeMu.Lock(), conn.WriteMessage starts
SendLock(p) ==
  /\ pc[p] = "sm_lock"
  /\ writeMu = ""
  /\ writeMu' = p
  /\ BeginWrite(p, wconn[p])
  /\ Goto(p, "sm_write")
  /\ UNCHANGED <<cfg, state, ctxDone, mu, wg, RetryCount,
                 ReconnectCount, panicked, closeFrames, readDone,
                 connVars, logVars, srvVars, envVars, locVars,
                 gap, lastDial, ErrorsByCode, received, processed, rmsg,
                 bookVars, sendVars, clock, sel, frameLog>>

\* SendMessage: conn.WriteMessage returns; writeMu stays held (deferred)
SendWrite(p) ==
  /\ pc[p] = "sm_write"
  /\ EndWrite(p)
  /\ \E ok \in BOOLEAN :
       /\ wconn[p] \in closedH => ~ok
       /\ ~ok => wconn[p] \in closedH \/ env.writeErrors
       /\ gap' = [gap EXCEPT !.netErr = @ \/ (~ok /\ wconn[p] \notin closedH)]
       /\ Goto(p, IF ok THEN "sm_stats" ELSE "sm_fail")
  /\ UNCHANGED <<cfg, state, ctxDone, mu, writeMu, wg, RetryCount,
                 ReconnectCount, panicked, closeFrames, readDone,
                 connVars, logVars, srvVars, envVars, locVars,
                 lastDial, ErrorsByCode, received, processed, rmsg,
                 bookVars, sendVars, clock, sel, frameLog>>

\* SendMessage, written: updateStats (under c.mu), deferred writeMu.Unlock()
SendDone(p) ==
  /\ pc[p] = "sm_stats"
  /\ mu = ""
  /\ updateStats(smsg[p].size, TRUE)
  /\ writeMu' = ""
  /\ Goto(p, SendReturn(p))
  /\ UNCHANGED <<cfg, state, ctxDone, mu, wg, RetryCount,
                 ReconnectCount, panicked, inflight, closeFrames, readDone,
                 connVars, logVars, srvVars, envVars, locVars,
                 gap, lastDial, ErrorsByCode, received, processed, rmsg,
                 Errors, exported, sendVars, clock, sel, frameLog>>

\* handleErrorWithRecovery: recordError (under c.mu), then Recover waits
handleErrorWithRecovery(p) ==
  /\ pc[p] = "sm_fail"
  /\ mu = ""
  /\ recordError(inferErrorCode(IF wconn[p] \in closedH THEN ErrClosed
                                                         ELSE ErrBrokenPipe))
  /\ Goto(p, "sm_recover")
  /\ UNCHANGED <<cfg, state, ctxDone, mu, writeMu, wg, RetryCount,
                 ReconnectCount, panicked, inflight, closeFrames, readDone,
                 connVars, logVars, srvVars, envVars, locVars,
                 gap, lastDial, received, processed, rmsg,
                 Stats, exported, sendVars, clock, sel, frameLog>>

\* Recover: the wait ends (timer or cancelled context); SendMessage returns
\* the error, deferred writeMu.Unlock()
Recover(p) ==
  /\ pc[p] = "sm_recover"
  /\ writeMu' = ""
  /\ Goto(p, SendReturn(p))
  /\ UNCHANGED <<cfg, state, ctxDone, mu, wg, RetryCount,
                 ReconnectCount, panicked, inflight, closeFrames, readDone,
                 connVars, logVars, srvVars, envVars, locVars,
                 gap, lastDial, ErrorsByCode, received, processed, rmsg,
                 bookVars, sendVars, clock, sel, frameLog>>

\* ================================================================= telemetry
\* updatePrometheusMetrics with the counters of sent and of received
\* messages taken from each other's field of c.Stats
updatePrometheusMetrics_Swapped(t) ==
  /\ pc[t] = "tm_idle"
  /\ metricsServer
  /\ exported.replies < MaxScrapes
  /\ CanRLock
  /\ metrics' =
       [MessagesSentTotal |-> Stats.MessagesReceived,
        BytesSentTotal |-> Stats.BytesSent,
        MessagesReceivedTotal |-> Stats.MessagesSent,
        BytesReceivedTotal |-> Stats.BytesReceived,
        ReconnectionsTotal |-> ReconnectCount,
        ErrorsTotal |-> Errors.TotalErrors,
        ConnectionsTotal |-> metrics.ConnectionsTotal,
        ConnectionsActive |-> IF isConnected THEN 1 ELSE 0]
  /\ Goto(t, "tm_print")
  /\ UNCHANGED <<cfg, state, ctxDone, mu, writeMu, wg, RetryCount,
                 ReconnectCount, panicked, inflight, closeFrames, readDone,
                 connVars, logVars, srvVars, envVars, locVars,
                 gap, lastDial, ErrorsByCode, received, processed, rmsg,
                 Stats, Errors, exported, sendVars, clock, sel, frameLog>>

\* handleMetrics: a request of /metrics arrives; updatePrometheusMetrics
\* copies the counters of c.Stats into c.metrics under c.mu.RLock
updatePrometheusMetrics(t) ==
  /\ pc[t] = "tm_idle"
  /\ metricsServer
  /\ exported.replies < MaxScrapes
  /\ CanRLock
  /\ metrics' =
       [MessagesSentTotal |-> Stats.MessagesSent,
        BytesSentTotal |-> Stats.BytesSent,
        MessagesReceivedTotal |-> Stats.MessagesReceived,
        BytesReceivedTotal |-> Stats.BytesReceived,
        ReconnectionsTotal |-> ReconnectCount,
        ErrorsTotal |-> Errors.TotalErrors,
        ConnectionsTotal |-> metrics.ConnectionsTotal,
        ConnectionsActive |-> IF isConnected THEN 1 ELSE 0]
  /\ Goto(t, "tm_print")
  /\ UNCHANGED <<cfg, state, ctxDone, mu, writeMu, wg, RetryCount,
                 ReconnectCount, panicked, inflight, closeFrames, readDone,
                 connVars, logVars, srvVars, envVars, locVars,
                 gap, lastDial, ErrorsByCode, received, processed, rmsg,
                 Stats, Errors, exported, sendVars, clock, sel, frameLog>>

\* handleMetrics: the counters of c.metrics are read, without a lock, and
\* written to the reply
handleMetrics(t) ==
  /\ pc[t] = "tm_print"
  /\ exported' = [exported EXCEPT !.last = metrics, !.replies = @ + 1]
  /\ Goto(t, "tm_idle")
  /\ UNCHANGED <<cfg, state, ctxDone, mu, writeMu, wg, RetryCount,
                 ReconnectCount, panicked, inflight, closeFrames, readDone,
                 connVars, logVars, srvVars, envVars, locVars,
                 gap, lastDial, ErrorsByCode, received, processed, rmsg,
                 Stats, Errors, metrics, sendVars, clock, sel, frameLog>>

\* the reply of the health server: its path, its HTTP status, the flag and
\* the state name of its body; at is the state when the status was decided
Reply(path, ok, at) ==
  [path |-> path, status |-> IF ok THEN 200 ELSE 503, ok |-> ok,
   state |-> at, at |-> at]

\* handleReady whose flag is taken from the installed handle
handleReady_ByConn(t) ==
  /\ pc[t] = "tm_idle"
  /\ healthServer
  /\ Len(exported.http) < MaxProbes
  /\ exported' = [exported EXCEPT
                    !.http = Append(@, Reply("/ready", conn # NoConn, state))]
  /\ Goto(t, "tm_ready")
  /\ UNCHANGED <<cfg, state, ctxDone, mu, writeMu, wg, RetryCount,
                 ReconnectCount, panicked, inflight, closeFrames, readDone,
                 connVars, logVars, srvVars, envVars, locVars,
                 gap, lastDial, ErrorsByCode, received, processed, rmsg,
                 Stats, Errors, metrics, sendVars, clock, sel, frameLog>>

\* handleReady: a request of /ready arrives; ready := c.isConnected()
\* decides between 200 and 503
handleReady(t) ==
  /\ pc[t] = "tm_idle"
  /\ healthServer
  /\ Len(exported.http) < MaxProbes
  /\ exported' = [exported EXCEPT
                    !.http = Append(@, Reply("/ready", isConnected, state))]
  /\ Goto(t, "tm_ready")
  /\ UNCHANGED <<cfg, state, ctxDone, mu, writeMu, wg, RetryCount,
                 ReconnectCount, panicked, inflight, closeFrames, readDone,
                 connVars, logVars, srvVars, envVars, locVars,
                 gap, lastDial, ErrorsByCode, received, processed, rmsg,
                 Stats, Errors, metrics, sendVars, clock, sel, frameLog>>

\* handleReady: the body is written, with c.GetState() read once more
handleReadyBody(t) ==
  /\ pc[t] = "tm_ready"
  /\ exported' = [exported EXCEPT !.http[Len(exported.http)].state = state]
  /\ Goto(t, "tm_idle")
  /\ UNCHANGED <<cfg, state, ctxDone, mu, writeMu, wg, RetryCount,
                 ReconnectCount, panicked, inflight, closeFrames, readDone,
                 connVars, logVars, srvVars, envVars, locVars,
                 gap, lastDial, ErrorsByCode, received, processed, rmsg,
                 Stats, Errors, metrics, sendVars, clock, sel, frameLog>>

\* handleHealth: a request of /health arrives; one c.GetState() decides
\* between 200 and 503 and names the state in the body
handleHealth(t) ==
  /\ pc[t] = "tm_idle"
  /\ healthServer
  /\ Len(exported.http) < MaxProbes
  /\ exported' = [exported EXCEPT !.http = Append(@,
         Reply("/health", state \notin {StateStopped, StateStopping}, state))]
  /\ UNCHANGED <<cfg, state, ctxDone, mu, writeMu, wg, RetryCount,
                 ReconnectCount, panicked, inflight, closeFrames, readDone,
                 connVars, logVars, srvVars, envVars, locVars, pc,
                 gap, lastDial, ErrorsByCode, received, processed, rmsg,
                 Stats, Errors, metrics, sendVars, clock, sel, frameLog>>

\* ============================================================= rate limiter
\* a goroutine that sends calls c.rateLimiter.Allow() and arrives at
\* rl.mu.Lock(), possibly while another one is there
CallAllow(p) ==
  /\ p \notin rateLimiter.callers
  /\ rateLimiter' = [rateLimiter EXCEPT !.callers = @ \cup {p}]
  /\ UNCHANGED <<cfg, state, ctxDone, mu, writeMu, wg, RetryCount,
                 ReconnectCount, panicked, inflight, closeFrames, readDone,
                 connVars, logVars, srvVars, envVars, locVars, pc,
                 gap, lastDial, ErrorsByCode, received, processed, rmsg,
                 bookVars, smsg, clock, sel, frameLog>>

\* RateLimiter.Allow: one of the callers gets rl.mu, reads the clock, runs
\* the body and returns
AllowLocked(p) ==
  /\ p \in rateLimiter.callers
  /\ rateLimiter' = [AllowCalled EXCEPT !.callers = @ \ {p}]
  /\ UNCHANGED <<cfg, state, ctxDone, mu, writeMu, wg, RetryCount,
                 ReconnectCount, panicked, inflight, closeFrames, readDone,
                 connVars, logVars, srvVars, envVars, locVars, pc,
                 gap, lastDial, ErrorsByCode, received, processed, rmsg,
                 bookVars, smsg, clock, sel, frameLog>>

\* Quantum seconds pass
Elapse ==
  /\ clock.now + Quantum <= MaxTime
  /\ clock' = [clock EXCEPT !.now = @ + Quantum]
  /\ UNCHANGED <<cfg, state, ctxDone, mu, writeMu, wg, RetryCount,
                 ReconnectCount, panicked, inflight, closeFrames, readDone,
                 connVars, logVars, srvVars, envVars, locVars, pc,
                 gap, lastDial, ErrorsByCode, received, processed, rmsg,
                 bookVars, sendVars, sel, frameLog>>

\* ============================================================== interactive
\* startInteractiveMode: c.wg.Add(1), inside the goroutine
startInteractiveMode ==
  /\ pc[Inter] = "it_add"
  /\ wg' = wg + 1
  /\ Goto(Inter, "it_waitconn")
  /\ UNCHANGED <<cfg, state, ctxDone, mu, writeMu, RetryCount,
                 ReconnectCount, panicked, inflight, closeFrames, readDone,
                 connVars, logVars, srvVars, envVars, locVars,
                 gap, lastDial, ErrorsByCode, received, processed, rmsg,
                 bookVars, sendVars, clock, sel, frameLog>>

\* startInteractiveMode: the loop that waits for the connection
InteractiveWaitConn ==
  /\ pc[Inter] = "it_waitconn"
  /\ IF ctxDone THEN Goto(Inter, "it_exit")
     ELSE isConnected /\ Goto(Inter, "it_scan")
  /\ UNCHANGED <<cfg, state, ctxDone, mu, writeMu, wg, RetryCount,
                 ReconnectCount, panicked, inflight, closeFrames, readDone,
                 connVars, logVars, srvVars, envVars, locVars,
                 gap, lastDial, ErrorsByCode, received, processed, rmsg,
                 bookVars, sendVars, clock, sel, frameLog>>

\* scanner.Scan() returns a line typed by the user: the loop checks
\* ctx.Done, then runs /quit (c.cancel()) or sends the text
InteractiveLine ==
  /\ pc[Inter] = "it_scan"
  /\ lines < MaxLines
  /\ lines' = lines + 1
  /\ \E input \in {"text", "/quit"} :
       IF ctxDone THEN Goto(Inter, "it_exit") /\ UNCHANGED ctxDone
       ELSE IF input = "/quit"
         THEN ctxDone' = TRUE /\ Goto(Inter, "it_exit")
         ELSE UNCHANGED ctxDone /\ Goto(Inter, "sm_check")
  /\ UNCHANGED <<cfg, state, mu, writeMu, wg, RetryCount,
                 ReconnectCount, panicked, inflight, closeFrames, readDone,
                 connVars, logVars, srvVars, dials, frames, pings, sends, env,
                 locVars,
                 gap, lastDial, ErrorsByCode, received, processed, rmsg,
                 bookVars, sendVars, clock, sel, frameLog>>

\* scanner.Scan() returns false: stdin reached its end
InteractiveEOF ==
  /\ pc[Inter] = "it_scan"
  /\ Goto(Inter, "it_exit")
  /\ UNCHANGED <<cfg, state, ctxDone, mu, writeMu, wg, RetryCount,
                 ReconnectCount, panicked, inflight, closeFrames, readDone,
                 connVars, logVars, srvVars, envVars, locVars,
                 gap, lastDial, ErrorsByCode, received, processed, rmsg,
                 bookVars, sendVars, clock, sel, frameLog>>

\* startInteractiveMode returns: deferred c.wg.Done()
InteractiveExit ==
  /\ pc[Inter] = "it_exit"
  /\ wg' = wg - 1
  /\ Goto(Inter, "it_done")
  /\ UNCHANGED <<cfg, state, ctxDone, mu, writeMu, RetryCount,
                 ReconnectCount, panicked, inflight, closeFrames, readDone,
                 connVars, logVars, srvVars, envVars, locVars,
                 gap, lastDial, ErrorsByCode, received, processed, rmsg,
                 bookVars, sendVars, clock, sel, frameLog>>

\* ====================================================================== Stop
\* Stop is called: c.cancel()
Stop(p) ==
  /\ pc[p] = "st_idle"
  /\ ctxDone' = TRUE
  /\ late' = [late EXCEPT ![p] = \E q \in Stoppers : pc[q] = "st_done"]
  /\ Goto(p, "st_setstate")
  /\ UNCHANGED <<cfg, state, mu, writeMu, wg, RetryCount,
                 ReconnectCount, panicked, inflight, closeFrames, readDone,
                 connVars, logVars, srvVars, envVars, newConn, rconn, wconn, err,
                 gap, lastDial, ErrorsByCode, received, processed, rmsg,
                 bookVars, sendVars, clock, sel, frameLog>>

\* Stop: c.setState(StateDisconnected)
StopSetState(p) ==
  /\ pc[p] = "st_setstate"
  /\ setState(StateDisconnected)
  /\ Goto(p, "st_lock")
  /\ UNCHANGED <<cfg, ctxDone, mu, writeMu, wg, RetryCount,
                 ReconnectCount, panicked, inflight, closeFrames, readDone,
                 connVars, logVars, srvVars, envVars, locVars,
                 gap, lastDial, ErrorsByCode, received, processed, rmsg,
                 bookVars, sendVars, clock, sel, frameLog>>

\* Stop that takes c.writeMu for its close frame, after c.mu
StopLock_TakesGate(p) ==
  /\ pc[p] = "st_lock"
  /\ mu = ""
  /\ IF conn = NoConn
       THEN Goto(p, "st_wait") /\ UNCHANGED <<mu, writeMu, inflight>>
       ELSE /\ writeMu = ""
            /\ mu' = p
            /\ writeMu' = p
            /\ BeginWrite(p, conn)
            /\ Goto(p, "st_close")
  /\ UNCHANGED <<cfg, state, ctxDone, wg, RetryCount,
                 ReconnectCount, panicked, closeFrames, readDone,
                 connVars, logVars, srvVars, envVars, locVars,
                 gap, lastDial, ErrorsByCode, received, processed, rmsg,
                 bookVars, sendVars, clock, sel, frameLog>>

\* Stop: c.mu.Lock(); with a handle installed the close frame is written
\* with conn.WriteMessage, under c.mu only
StopLock(p) ==
  /\ pc[p] = "st_lock"
  /\ mu = ""
  /\ IF conn = NoConn
       THEN Goto(p, "st_wait") /\ UNCHANGED <<mu, inflight>>
       ELSE mu' = p /\ BeginWrite(p, conn) /\ Goto(p, "st_close")
  /\ UNCHANGED <<cfg, state, ctxDone, writeMu, wg, RetryCount,
                 ReconnectCount, panicked, closeFrames, readDone,
                 connVars, logVars, srvVars, envVars, locVars,
                 gap, lastDial, ErrorsByCode, received, processed, rmsg,
                 bookVars, sendVars, clock, sel, frameLog>>

\* Stop: the close frame is written, conn.Close(), c.conn = nil,
\* c.mu.Unlock()
StopClose(p) ==
  /\ pc[p] = "st_close"
  /\ EndWrite(p)
  /\ closeFrames' = [closeFrames EXCEPT ![p] = @ + 1]
  /\ CloseHandle(conn)
  /\ conn' = NoConn
  /\ mu' = ""
  /\ Goto(p, "st_wait")
  /\ UNCHANGED <<cfg, state, ctxDone, writeMu, wg, RetryCount,
                 ReconnectCount, panicked, readDone,
                 logVars, srvVars, envVars, locVars,
                 gap, lastDial, ErrorsByCode, received, processed, rmsg,
                 bookVars, sendVars, clock, sel, frameLog>>

\* Stop: c.wg.Wait()
StopWait(p) ==
  /\ pc[p] = "st_wait"
  /\ wg = 0
  /\ Goto(p, "st_log")
  /\ UNCHANGED <<cfg, state, ctxDone, mu, writeMu, wg, RetryCount,
                 ReconnectCount, panicked, inflight, closeFrames, readDone,
                 connVars, logVars, srvVars, envVars, locVars,
                 gap, lastDial, ErrorsByCode, received, processed, rmsg,
                 bookVars, sendVars, clock, sel, frameLog>>

\* closeMessageLog: if c.logFile != nil
closeMessageLog(p) ==
  /\ pc[p] = "st_log"
  /\ Goto(p, IF logFile THEN "st_logw" ELSE "st_ms")
  /\ UNCHANGED <<cfg, state, ctxDone, mu, writeMu, wg, RetryCount,
                 ReconnectCount, panicked, inflight, closeFrames, readDone,
                 connVars, logVars, srvVars, envVars, locVars,
                 gap, lastDial, ErrorsByCode, received, processed, rmsg,
                 bookVars, sendVars, clock, sel, frameLog>>

\* closeMessageLog: c.logFile.WriteString(footer); fails on a nil or closed
\* file
closeMessageLogFooter(p) ==
  /\ pc[p] = "st_logw"
  /\ footers' = IF logFile /\ logOpen THEN footers + 1 ELSE footers
  /\ Goto(p, "st_logc")
  /\ UNCHANGED <<cfg, state, ctxDone, mu, writeMu, wg, RetryCount,
                 ReconnectCount, panicked, inflight, closeFrames, readDone,
                 connVars, logFile, logOpen, srvVars, envVars, locVars,
                 gap, lastDial, ErrorsByCode, received, processed, rmsg,
                 bookVars, sendVars, clock, sel, frameLog>>

\* closeMessageLog: c.logFile.Close(); c.logFile = nil
closeMessageLogClose(p) ==
  /\ pc[p] = "st_logc"
  /\ logOpen' = FALSE
  /\ logFile' = FALSE
  /\ Goto(p, "st_ms")
  /\ UNCHANGED <<cfg, state, ctxDone, mu, writeMu, wg, RetryCount,
                 ReconnectCount, panicked, inflight, closeFrames, readDone,
                 connVars, footers, srvVars, envVars, locVars,
                 gap, lastDial, ErrorsByCode, received, processed, rmsg,
                 bookVars, sendVars, clock, sel, frameLog>>

\* stopMonitoringServers: if c.metricsServer != nil
stopMonitoringServers(p) ==
  /\ pc[p] = "st_ms"
  /\ Goto(p, IF metricsServer THEN "st_ms2" ELSE "st_hs")
  /\ UNCHANGED <<cfg, state, ctxDone, mu, writeMu, wg, RetryCount,
                 ReconnectCount, panicked, inflight, closeFrames, readDone,
                 connVars, logVars, srvVars, envVars, locVars,
                 gap, lastDial, ErrorsByCode, received, processed, rmsg,
                 bookVars, sendVars, clock, sel, frameLog>>

\* stopMonitoringServers: c.metricsServer.Shutdown(ctx); a nil server is a
\* nil-pointer panic
ShutdownMetrics(p) ==
  /\ pc[p] = "st_ms2"
  /\ IF metricsServer
       THEN /\ shutdowns' = [shutdowns EXCEPT !["metrics"] = @ + 1]
            /\ Goto(p, "st_ms3")
            /\ UNCHANGED panicked
       ELSE Panic /\ UNCHANGED shutdowns
  /\ UNCHANGED <<cfg, state, ctxDone, mu, writeMu, wg, RetryCount,
                 ReconnectCount, inflight, closeFrames, readDone,
                 connVars, logVars, metricsServer, healthServer, envVars,
                 locVars,
                 gap, lastDial, ErrorsByCode, received, processed, rmsg,
                 bookVars, sendVars, clock, sel, frameLog>>

\* stopMonitoringServers: c.metricsServer = nil
ClearMetrics(p) ==
  /\ pc[p] = "st_ms3"
  /\ metricsServer' = FALSE
  /\ Goto(p, "st_hs")
  /\ UNCHANGED <<cfg, state, ctxDone, mu, writeMu, wg, RetryCount,
                 ReconnectCount, panicked, inflight, closeFrames, readDone,
                 connVars, logVars, healthServer, shutdowns, envVars,
                 locVars,
                 gap, lastDial, ErrorsByCode, received, processed, rmsg,
                 bookVars, sendVars, clock, sel, frameLog>>

\* stopMonitoringServers: if c.healthServer != nil; otherwise Stop returns
stopHealthServer(p) ==
  /\ pc[p] = "st_hs"
  /\ Goto(p, IF healthServer THEN "st_hs2" ELSE "st_done")
  /\ UNCHANGED <<cfg, state, ctxDone, mu, writeMu, wg, RetryCount,
                 ReconnectCount, panicked, inflight, closeFrames, readDone,
                 connVars, logVars, srvVars, envVars, locVars,
                 gap, lastDial, ErrorsByCode, received, processed, rmsg,
                 bookVars, sendVars, clock, sel, frameLog>>

\* stopMonitoringServers: c.healthServer.Shutdown(ctx); a nil server is a
\* nil-pointer panic
ShutdownHealth(p) ==
  /\ pc[p] = "st_hs2"
  /\ IF healthServer
       THEN /\ shutdowns' = [shutdowns EXCEPT !["health"] = @ + 1]
            /\ Goto(p, "st_hs3")
            /\ UNCHANGED panicked
       ELSE Panic /\ UNCHANGED shutdowns
  /\ UNCHANGED <<cfg, state, ctxDone, mu, writeMu, wg, RetryCount,
                 ReconnectCount, inflight, closeFrames, readDone,
                 connVars, logVars, metricsServer, healthServer, envVars,
                 locVars,
                 gap, lastDial, ErrorsByCode, received, processed, rmsg,
                 bookVars, sendVars, clock, sel, frameLog>>

\* stopMonitoringServers: c.healthServer = nil; Stop returns
ClearHealth(p) ==
  /\ pc[p] = "st_hs3"
  /\ healthServer' = FALSE
  /\ Goto(p, "st_done")
  /\ UNCHANGED <<cfg, state, ctxDone, mu, writeMu, wg, RetryCount,
                 ReconnectCount, panicked, inflight, closeFrames, readDone,
                 connVars, logVars, metricsServer, shutdowns, envVars,
                 locVars,
                 gap, lastDial, ErrorsByCode, received, processed, rmsg,
                 bookVars, sendVars, clock, sel, frameLog>>

\* ============================================================ specification
\* the supervisor while no dial succeeds
RetryStep ==
  \/ Start \/ StartLoop \/ Connect \/ establishConnection
  \/ handleConnectionError \/ attemptErrorRecovery \/ reconnectOperation
  \/ attemptConnectionFailed \/ waitForRetry \/ StartExit

SupervisorStep ==
  \/ RetryStep \/ setupConnection
  \/ attemptConnectionOk \/ handleConnectedSession \/ awaitSession

ReaderStep ==
  \/ shouldContinueReading \/ ReadMessagesGetConn \/ ReadClosed
  \/ handleReadError
  \/ processReceivedMessage \/ onMessage \/ onMessageReturn
  \/ ReadMessagesDefer \/ ReadMessagesClose \/ ReaderExit

ControlStep(p) ==
  sendControlMessage(p) \/ sendControlLock(p) \/ sendControlWrite(p)

HeartbeatStep == sendPeriodicPing \/ PingSelect \/ PingExit

SendStep(p) ==
    \/ SendMessage(p) \/ SendReject(p) \/ SendLock(p) \/ SendWrite(p)
    \/ SendDone(p) \/ handleErrorWithRecovery(p) \/ Recover(p)

InteractiveStep ==
  startInteractiveMode \/ InteractiveWaitConn \/ InteractiveExit

StopStep ==
  \E p \in Stoppers :
    \/ StopSetState(p) \/ StopLock(p) \/ StopClose(p) \/ StopWait(p)
    \/ closeMessageLog(p) \/ closeMessageLogFooter(p)
    \/ closeMessageLogClose(p) \/ stopMonitoringServers(p)
    \/ ShutdownMetrics(p) \/ ClearMetrics(p) \/ stopHealthServer(p)
    \/ ShutdownHealth(p) \/ ClearHealth(p)

Next ==
  \/ SupervisorStep \/ ReaderStep \/ ControlStep(Reader)
  \/ HeartbeatStep \/ ControlStep(Hb) \/ SendStep(User) \/ StopStep
  \/ ReadFrame \/ ReadPing \/ ReadError \/ UserSend
  \/ \E p \in Stoppers : Stop(p)

Spec == Init /\ [][Next]_vars

\* ---- two goroutines call Stop (concurrently or one after the other) on a
\* session without heartbeat and without user traffic
InitStop2 ==
  InitWith({Config(1, TRUE, FALSE, TRUE, TRUE)}, FALSE, Stoppers)

NextStop2 ==
  \/ SupervisorStep \/ ReaderStep \/ StopStep
  \/ ReadFrame \/ ReadError
  \/ \E p \in Stoppers : Stop(p)

SpecStop2 == InitStop2 /\ [][NextStop2]_vars

\* ---- an interactive session (-i) with heartbeat, stopped by one Stop call;
\* the goroutines are scheduled fairly, timers fire and a dial returns, but
\* nothing obliges the peer to send or the user to type
InitInteractive ==
  InitWith({Config(1, FALSE, TRUE, TRUE, TRUE)}, FALSE, {"stop1"})

NextInteractive ==
  \/ SupervisorStep \/ ReaderStep \/ ControlStep(Reader)
  \/ HeartbeatStep \/ ControlStep(Hb)
  \/ InteractiveStep \/ SendStep(Inter) \/ StopStep
  \/ ReadFrame \/ ReadPing \/ ReadError
  \/ InteractiveLine \/ InteractiveEOF
  \/ \E p \in Stoppers : Stop(p)

FairSpec ==
  /\ InitInteractive
  /\ [][NextInteractive]_vars
  /\ WF_vars(SupervisorStep)
  /\ WF_vars(ReaderStep \/ ControlStep(Reader))
  /\ WF_vars(HeartbeatStep \/ ControlStep(Hb))
  /\ WF_vars(InteractiveStep \/ SendStep(Inter))
  /\ WF_vars(StopStep)

\* ---- the retry policy: a session without heartbeat and without user
\* traffic, for -r 0 .. -r MaxRetriesFlag, whose peer refuses dials or fails
\* the handshake at will, stopped by one Stop call
InitRetry ==
  InitEnv({Config(n, TRUE, FALSE, TRUE, TRUE) : n \in 0..MaxRetriesFlag},
          FALSE, {"stop1"},
          Peer(MaxRetryDials, MaxRetryFrames, {ErrRefused, ErrHandshake}))

NextRetry ==
  \/ SupervisorStep \/ ReaderStep \/ StopStep
  \/ ReadFrame \/ ReadError
  \/ Stop("stop1")

SpecRetry == InitRetry /\ [][NextRetry]_vars

\* ---- a peer that accepts no dial, for -r 0 .. -r MaxRetriesFlag; nobody
\* calls Stop
InitRefused ==
  InitEnv({Config(n, TRUE, FALSE, TRUE, TRUE) : n \in 0..MaxRetriesFlag},
          FALSE, {},
          [Peer(MaxRefusedDials, 0, {ErrRefused, ErrHandshake})
             EXCEPT !.accepts = FALSE])

NextRefused == RetryStep

SpecRefused == InitRefused /\ [][NextRefused]_vars

\* ---- a burst of SendMessage calls with one message, of any type, length
\* and content, on a session without heartbeat whose peer accepts the dial,
\* sends no frame and lets every write succeed
SendMessages ==
  {Message(v, n, b) :
     v \in BOOLEAN,
     n \in {1, MaxMessageSize, MaxMessageSize + 1},
     b \in BOOLEAN}

InitSend ==
  \E m \in SendMessages :
    InitEnv({Config(1, TRUE, FALSE, FALSE, FALSE)}, TRUE, {},
            [Peer(1, 0, {})
               EXCEPT !.msgs = {m}, !.sends = MaxBurst,
                      !.writeErrors = FALSE])

NextSend ==
  \/ Start \/ StartLoop \/ Connect \/ establishConnection
  \/ setupConnection \/ attemptConnectionOk \/ handleConnectedSession
  \/ shouldContinueReading \/ ReadMessagesGetConn
  \/ UserSend \/ SendMessage(User) \/ SendReject(User) \/ SendLock(User)
  \/ SendWrite(User) \/ SendDone(User)

SpecSend == InitSend /\ [][NextSend]_vars

\* ---- sessions without heartbeat and user traffic whose peer sends frames,
\* some of them longer than MaxMessageSize, and breaks the connection
InitFrames ==
  \E O \in SUBSET (1..MaxRetryFrames) :
    InitEnv({Config(1, TRUE, FALSE, FALSE, FALSE)}, FALSE, {},
            [Peer(MaxDials, MaxRetryFrames, {}) EXCEPT !.oversize = O])

NextFrames ==
  \/ Start \/ StartLoop \/ Connect \/ establishConnection
  \/ setupConnection \/ attemptConnectionOk \/ handleConnectedSession
  \/ awaitSession \/ shouldContinueReading \/ ReadMessagesGetConn
  \/ ReadFrame \/ ReadError \/ handleReadError
  \/ processReceivedMessage \/ handleProcessError
  \/ onMessage \/ onMessageReturn
  \/ ReadMessagesDefer \/ ReadMessagesClose \/ ReaderExit

SpecFrames == InitFrames /\ [][NextFrames]_vars

\* ---- a session with a sending user, a peer that sends frames and breaks
\* connections, and two concurrent requests of /metrics
InitStats ==
  InitWith({Config(1, TRUE, FALSE, FALSE, TRUE)}, TRUE, Tele)

TelemetryStep(t) == updatePrometheusMetrics(t) \/ handleMetrics(t)

NextStats ==
  \/ SupervisorStep \/ shouldContinueReading \/ ReadMessagesGetConn
  \/ ReadFrame \/ ReadError \/ handleReadError
  \/ processReceivedMessage \/ onMessage \/ onMessageReturn
  \/ ReadMessagesDefer \/ ReadMessagesClose \/ ReaderExit
  \/ SendStep(User) \/ UserSend
  \/ \E t \in Tele : TelemetryStep(t)

SpecStats == InitStats /\ [][NextStats]_vars

\* ---- the tasks that take c.writeMu or c.mu: a sending user, the
\* heartbeat, the reader with its pong responder and one Stop call, on a
\* session whose peer accepts or refuses one dial
InitLocks ==
  InitEnv({Config(1, FALSE, FALSE, TRUE, TRUE)}, TRUE, {"stop1"},
          Peer(1, MaxFrames, {ErrRefused}))

SpecLocks == InitLocks /\ [][Next]_vars

\* ---- a session with the monitoring servers, whose peer sends frames and
\* breaks connections; one Stop call, and requests of /health and /ready
\* at any time
InitProbe ==
  InitWith({Config(1, TRUE, FALSE, TRUE, TRUE)}, FALSE, {"stop1", "tele1"})

ProbeStep(t) == handleReady(t) \/ handleReadyBody(t) \/ handleHealth(t)

NextProbe ==
  \/ SupervisorStep \/ ReaderStep \/ StopStep
  \/ ReadFrame \/ ReadError
  \/ Stop("stop1")
  \/ ProbeStep("tele1")

SpecProbe == InitProbe /\ [][NextProbe]_vars

\* ---- a client that never connects, whose user goroutine calls SendMessage
\* again and again with the same message: every call records an error
InitFlood ==
  \E m \in {Message(TRUE, 1, FALSE), Message(TRUE, 1, TRUE)} :
    InitEnv({Config(1, TRUE, FALSE, FALSE, FALSE)}, TRUE, {},
            [Peer(0, 0, {}) EXCEPT !.msgs = {m}, !.sends = MaxFlood])

NextFlood == UserSend \/ SendMessage(User) \/ SendReject(User)

SpecFlood == InitFlood /\ [][NextFlood]_vars

\* ---- the ErrorBook under all its writers: either the tasks of SpecLocks,
\* which record the errors of dials and of sends concurrently, or the user
\* goroutine of SpecFlood, which records more than MaxErrorTrend errors
InitBook == InitLocks \/ InitFlood

SpecBook == InitBook /\ [][Next]_vars

\* ---- the rate limiter of a client, called by the goroutines that send,
\* concurrently, at times of their choice and any number of times
InitLimiter ==
  InitEnv({Config(1, TRUE, FALSE, FALSE, FALSE)}, TRUE, {}, Peer(0, 0, {}))

NextLimiter ==
  \/ \E p \in Senders : CallAllow(p) \/ AllowLocked(p)
  \/ Elapse

SpecLimiter == InitLimiter /\ [][NextLimiter]_vars

\* ---- a quiet session with heartbeat, bound to the clock: the peer accepts
\* the dial, sends at most MaxFrames frames at times of its choice, breaks
\* nothing and answers every ping within MaxLatency seconds
InitIdle ==
  InitEnv({Config(1, FALSE, FALSE, FALSE, FALSE)}, FALSE, {},
          [Peer(1, MaxFrames, {}) EXCEPT !.timed = TRUE, !.pings = MaxTime,
                                 !.latency = MaxLatency,
                                 !.writeErrors = FALSE])

NextIdle ==
  \/ Start \/ StartLoop \/ Connect \/ establishConnection
  \/ setupConnection \/ attemptConnectionOk \/ handleConnectedSession
  \/ shouldContinueReading \/ ReadMessagesGetConn \/ ReadPong
  \/ ReadFrame \/ processReceivedMessage \/ onMessage \/ onMessageReturn
  \/ sendPeriodicPing \/ PingSelect \/ ControlStep(Hb)
  \/ Tick

SpecIdle == InitIdle /\ [][NextIdle]_vars

\* the recovery selector, applied to one error value: the texts an error
\* carries, and the error values built from them
SelectorTexts ==
  {ErrRefused, ErrHandshake, ErrCanceled, ErrBrokenPipe, ErrTimeout,
   ErrClosed, ErrNoSuchHost, ErrTLS, ErrConnectionFailed,
   ErrConnectionClosed, ErrHandshakeTimeout, ErrReadTimeout,
   ErrWriteTimeout, ErrTextRateLimit, ErrTextSecurity, ErrTextValidation}

SelectorInputs ==
  {PlainError(t) : t \in SelectorTexts \cup {NoErr}} \cup
  {ConnectionError(c, t, r) :
     c \in ErrorCodes, t \in SelectorTexts, r \in BOOLEAN}

InitSelector ==
  /\ sel \in {[NoSel EXCEPT !.err = e] : e \in SelectorInputs}
  /\ InitClient({Config(1, TRUE, FALSE, FALSE, FALSE)}, FALSE, {},
                Peer(MaxDials, MaxFrames, {ErrRefused}))

\* DefaultErrorRecovery.Recover: the strategy GetRecoveryStrategy selects
\* for the error, and whether CanRecover lets the recovery run
SelectRecovery ==
  /\ sel.strategy = ""
  /\ sel' = [sel EXCEPT !.can = CanRecover(sel.err),
                        !.strategy = GetRecoveryStrategy(sel.err)]
  /\ UNCHANGED <<cfg, state, ctxDone, mu, writeMu, wg, RetryCount,
                 ReconnectCount, panicked, inflight, closeFrames, readDone,
                 connVars, logVars, srvVars, envVars, locVars, pc,
                 gap, lastDial, ErrorsByCode, received, processed, rmsg,
                 bookVars, sendVars, clock, frameLog>>

NextSelector == SelectRecovery

SpecSelector == InitSelector /\ [][NextSelector]_vars

\* ==================================================================== claims
ReaderRunning == pc[Reader] \notin {"off", "dead"}
HeartbeatRunning == pc[Hb] \notin {"off", "hb_done", "dead"}
InteractiveRunning == pc[Inter] \notin {"off", "it_done", "dead"}
StopEntered == \E p \in Stoppers : pc[p] \notin {"off", "st_idle", "dead"}
StopReturned == \E p \in Stoppers : pc[p] = "st_done"

\* C1: at most one write to a transport handle is in flight at any instant
C1_OneWriteInFlight ==
  \A h \in Handles : Cardinality({w \in inflight : w[2] = h}) <= 1

\* C2: State = Connected implies that a handle is installed and that the
\* Reader task is running
C2_ConnectedHasHandleAndReader ==
  state = StateConnected => conn # NoConn /\ ReaderRunning

\* C3: State # Connected implies that no handle is installed and that no
\* Reader task is running
C3_NotConnectedNoHandleNoReader ==
  state # StateConnected => conn = NoConn /\ ~ReaderRunning

\* C4: once Stop has been entered no dial is made and the state never again
\* becomes Connecting or Connected
C4_NoReconnectAfterStop ==
  [][StopEntered =>
       /\ dials' = dials
       /\ (state' # state => state' \notin {StateConnecting, StateConnected})
    ]_vars

\* C5: Stop sets Stopping when it begins and Stopped when it has finished,
\* and Stopped is terminal
C5_StopReachesStopped ==
  [][/\ \A p \in Stoppers :
          /\ (pc[p] = "st_setstate" /\ pc'[p] = "st_lock")
               => state' = StateStopping
          /\ pc'[p] = "st_done" => state' = StateStopped
     /\ state = StateStopped => state' = StateStopped
    ]_vars

\* C6: once Stop has returned no Reader or Heartbeat task remains, no handle
\* is installed and the audit log is closed
C6_StoppedIsQuiescent ==
  StopReturned =>
    /\ ~ReaderRunning
    /\ ~HeartbeatRunning
    /\ conn = NoConn
    /\ ~logOpen

\* the legal transitions of the state machine
LegalTransition(s, t) ==
  \/ s = StateDisconnected /\ t = StateConnecting
  \/ s = StateConnecting /\ t = StateConnected
  \/ s = StateConnecting /\ t = StateDisconnected
  \/ s = StateConnected /\ t = StateReconnecting
  \/ s = StateReconnecting /\ t = StateConnecting
  \/ s \notin {StateStopping, StateStopped} /\ t = StateStopping
  \/ s = StateStopping /\ t = StateStopped

\* C10: every state change is a legal transition of the state machine
C10_OnlyLegalTransitions ==
  [][state' # state => LegalTransition(state, state')]_vars

\* C7: after Stop is entered its join returns: Stop eventually returns
\* (unless the process has panicked)
C7_StopTerminates == StopEntered ~> (StopReturned \/ panicked)

\* what a Stop call can change of the client
StopVisible ==
  <<state, conn, ctxDone, closedH, closeCnt, closeFrames, footers, logFile,
    logOpen, metricsServer, healthServer, shutdowns>>

\* C8: a Stop call made after another Stop call has returned changes no
\* state
C8_SecondStopIsNoOp ==
  [][\A p \in Stoppers :
       (late'[p] /\ pc'[p] # pc[p]) => UNCHANGED StopVisible]_vars

\* C9: with two Stop calls the close frame is sent at most once, no handle
\* is closed twice, the session-end marker is written at most once (exactly
\* once, and the file closed, when both have returned), each telemetry
\* server is shut down at most once
C9_ConcurrentStopOnce ==
  /\ closeFrames["stop1"] + closeFrames["stop2"] <= 1
  /\ \A h \in Handles : closeCnt[h] <= 1
  /\ footers <= 1
  /\ \A s \in {"metrics", "health"} : shutdowns[s] <= 1
  /\ (\A p \in Stoppers : pc[p] = "st_done")
       => (cfg.LogFile => footers = 1 /\ ~logOpen)

\* ------------------------------------------------------------- retry policy
\* the retry policy gave up: attemptConnection returned false on the limit
GaveUp ==
  /\ pc[Sup] \in {"sv_exit", "sv_done"}
  /\ shouldStopRetrying(RetryCount)

\* the delay the retry policy inserted before the last dial
PolicyDelay == lastDial.policy

\* every wait made between the previous failed dial and the last dial
TotalDelay == lastDial.policy + lastDial.recovery

\* errors recorded in the ErrorBook with another code than c
RecordedExcept(c) ==
  LET RECURSIVE Sum(_)
      Sum(S) == IF S = {} THEN 0
                ELSE LET x == CHOOSE y \in S : TRUE
                     IN  ErrorsByCode[x] + Sum(S \ {x})
  IN  Sum(ErrorCodes \ {c})

\* C11: with max_retries = N > 0 and a peer that fails every dial, the first
\* N dials are classified fast by the retry policy (no policy delay before
\* them), the next N are classified slow (the policy delay RetryDelay before
\* each), and the supervisor gives up after exactly 2N dials.
C11_NFastThenNSlow ==
  cfg.MaxRetries > 0 /\ ~env.accepts =>
    /\ lastDial.attempt \in 1..cfg.MaxRetries => PolicyDelay = 0
    /\ lastDial.attempt \in (cfg.MaxRetries + 1)..(2 * cfg.MaxRetries)
         => PolicyDelay = RetryDelay
    /\ dials <= 2 * cfg.MaxRetries
    /\ GaveUp => dials = 2 * cfg.MaxRetries

\* C12: with max_retries = N > 0, no wait of any kind (retry policy or
\* automatic error recovery) lies between a failed dial and the next dial
\* while the attempt number is in the fast phase (attempt <= N); a wait
\* occurs only before attempts of the slow phase.
C12_NoWaitInFastPhase ==
  cfg.MaxRetries > 0 /\ lastDial.attempt \in 1..cfg.MaxRetries
    => TotalDelay = 0

\* C14: with max_retries = 0 the dial attempts 1..5 are made without a
\* policy delay and every attempt from the 6th on is preceded by the policy
\* delay RetryDelay.
C14_UnlimitedFastPhaseIsFive ==
  cfg.MaxRetries = 0 =>
    /\ lastDial.attempt \in 1..5 => PolicyDelay = 0
    /\ lastDial.attempt >= 6 => PolicyDelay = RetryDelay

\* C17: when the retry policy has given up (N > 0) and Start has returned,
\* the supervisor has moved the state to Stopping, on its way to Stopped.
C17_GiveUpEndsStopped ==
  cfg.MaxRetries > 0 /\ GaveUp /\ pc[Sup] = "sv_done"
    => state \in {StateStopping, StateStopped}

\* C18: when the retries are exhausted, the ErrorBook holds exactly one
\* error with code MaxRetriesExceeded (3001), next to one entry per failed
\* dial (2N entries).
C18_GiveUpRecordedOnce ==
  cfg.MaxRetries > 0 /\ ~env.accepts /\ GaveUp /\ pc[Sup] = "sv_done" =>
    /\ ErrorsByCode[ErrCodeMaxRetriesExceeded] = 1
    /\ RecordedExcept(ErrCodeMaxRetriesExceeded) = 2 * cfg.MaxRetries

\* C13: with max_retries = 0 the supervisor never gives up by itself: after
\* any number of failed dials it leaves the main loop only when the context
\* has been cancelled.
C13_UnlimitedNeverGivesUp ==
  cfg.MaxRetries = 0 /\ pc[Sup] = "sv_exit" => ctxDone

\* three dials in a row failed under max_retries = 0 and the main loop goes
\* on, the context not being cancelled
C13_Witness ==
  /\ cfg.MaxRetries = 0
  /\ RetryCount >= 3
  /\ ~ctxDone
  /\ pc[Sup] = "sv_loop"

\* C15: the retry counter is reset on every Connected transition: outside
\* the supervisor's one step between setState(Connected) and the reset, no
\* state has State = Connected and RetryCount # 0; and a dial that follows a
\* session is attempt 1 again.
C15_RetryCountResetOnConnected ==
  /\ state = StateConnected /\ RetryCount # 0 => pc[Sup] = "sv_reset"
  /\ lastDial.afterSession => lastDial.attempt = 1

\* the first dial failed, the second opened a session, the third failed and
\* was counted as the first failure
C15_Witness ==
  /\ dials = 3
  /\ ReconnectCount = 1
  /\ lastDial.afterSession
  /\ pc[Sup] = "sv_wait"
  /\ RetryCount = 1

\* the positions of the supervisor from a failed dial to the loop head and
\* out of the loop
RetryPath ==
  {"sv_recover", "sv_recwait", "sv_retry", "sv_wait", "sv_loop", "sv_exit",
   "sv_done"}

C20_ProcessedOnceInOrder ==
  IF pc[Reader] = "rd_process"
    THEN /\ received = Append(processed, rmsg)
    ELSE processed = received

\* two frames were received in two different sessions and both processed
C20_Witness ==
  /\ Len(processed) = 2
  /\ ReconnectCount = 2
  /\ received = <<1, 2>>
  /\ frames = 2

\* a user send succeeds: conn.WriteMessage returns nil
SendSucceeds ==
  \E p \in Senders : pc[p] = "sm_write" /\ pc'[p] = "sm_stats"

\* C19: after a network error (strategy Reconnect), on a send, on the
\* reader or on a dial, no user send succeeds until a new dial has been made
\* or the supervisor has given up.
C19_NoSendBeforeReconnect ==
  [][SendSucceeds => ~gap.netErr]_vars

\* ------------------------------------------------------- recovery selector
\* the classes of error kinds
NetworkClass ==
  {ErrCodeConnectionRefused, ErrCodeConnectionTimeout,
   ErrCodeConnectionLost, ErrCodeDNSError, ErrCodeTLSError}

TimeoutClass ==
  {ErrCodeSendTimeout, ErrCodeReceiveTimeout, ErrCodeHandshakeFailed}

ContentClass ==
  {ErrCodeMessageTooLarge, ErrCodeInvalidMessage, ErrCodeEncodingError}

SecurityClass ==
  {ErrCodeRateLimitExceeded, ErrCodeSecurityViolation,
   ErrCodeSuspiciousActivity}

\* the selector was applied to an error of a kind in class K
Selected(K) ==
  /\ sel.strategy # ""
  /\ extractErrorCode(sel.err) \in K

\* C26: the selector maps every error of the network class to Reconnect
\* and every error of the timeout class to Reset
C26_NetworkReconnectsTimeoutResets ==
  /\ Selected(NetworkClass) => sel.strategy = RecoveryReconnect
  /\ Selected(TimeoutClass) => sel.strategy = RecoveryReset

\* C27: the selector maps every content error to Fallback and every
\* rate or security error to None, for which no recovery runs
C27_ContentFallsBackSecurityNone ==
  /\ Selected(ContentClass) => sel.strategy = RecoveryFallback
  /\ Selected(SecurityClass) =>
       sel.strategy = RecoveryNone /\ ~sel.can

\* ------------------------------------------------------ on-message callback
\* C21: at most one reader goroutine is alive and at most one on-message
\* call is in progress at any instant
C21_OneReaderOneCallback ==
  /\ frameLog.readers <= 1
  /\ frameLog.active <= 1

\* the reader of a second session is inside the on-message callback, after
\* the reader of the first session called it too
C21_Witness ==
  /\ ReconnectCount = 2
  /\ frameLog.readers = 1
  /\ frameLog.active = 1
  /\ Len(frameLog.onMessage) = 2

\* --------------------------------------------------------------- SendMessage
\* the message of sender p passes the checks of its type and content, and
\* SendMessage did not refuse it for the rate limit or the missing connection
SizeDecides(p) ==
  /\ smsg[p].validType
  /\ ~smsg[p].blocked
  /\ smsg[p].code \notin {ErrCodeRateLimitExceeded, ErrCodeConnectionLost}

\* C22: a payload of exactly MaxMessageSize bytes is accepted; a payload of
\* MaxMessageSize + 1 bytes fails with MessageTooLarge, the code recorded
C22_MaxAcceptedMaxPlusOneTooLarge ==
  \A p \in Senders :
    SizeDecides(p) =>
      /\ smsg[p].size = MaxMessageSize => smsg[p].code = 0
      /\ smsg[p].size = MaxMessageSize + 1 =>
           /\ smsg[p].code = ErrCodeMessageTooLarge
           /\ pc[p] # "sm_reject" => ErrorsByCode[ErrCodeMessageTooLarge] > 0

\* sender p takes the step from l to another position
Leaves(p, l) == pc[p] = l /\ pc'[p] # l

\* C23: a send rejected before the write starts no write, leaves the
\* counters of sent messages and bytes and the connection state as they
\* are, and records exactly one error
C23_RejectedSendOnlyRecords ==
  [][\A p \in Senders :
       /\ Leaves(p, "sm_check") /\ pc'[p] = "sm_reject" =>
            /\ inflight' = inflight /\ Stats' = Stats /\ state' = state
            /\ metrics' = metrics /\ Errors' = Errors
            /\ ErrorsByCode' = ErrorsByCode
       /\ Leaves(p, "sm_reject") =>
            /\ pc'[p] = SendReturn(p)
            /\ inflight' = inflight /\ Stats' = Stats /\ state' = state
            /\ metrics' = [metrics EXCEPT !.ErrorsTotal = @ + 1]
            /\ Errors'.TotalErrors = Errors.TotalErrors + 1
            /\ ErrorsByCode' =
                 [ErrorsByCode EXCEPT ![smsg[p].code] = @ + 1]]_vars

\* on a Connected session a send was refused for the rate limit, after
\* sends refused for another reason or written
C23_Witness ==
  /\ state = StateConnected
  /\ pc[User] = "sn_idle"
  /\ smsg[User].code = ErrCodeRateLimitExceeded
  /\ Errors.TotalErrors > 0
  /\ ErrorsByCode[ErrCodeRateLimitExceeded] = 1

\* ------------------------------------------------------------------ shutdown
\* C30: a dial that fails because Stop cancelled the context adds nothing
\* to the recorded errors
C30_CancelledDialNotRecorded ==
  [][pc[Sup] = "sv_recover" /\ pc'[Sup] # "sv_recover" /\ err = ErrCanceled
       => Errors' = Errors /\ ErrorsByCode' = ErrorsByCode]_vars

\* ------------------------------------------------------------ received frames
\* the frames longer than MaxMessageSize whose processing is over
OversizeHandled ==
  {processed[i] : i \in 1..Len(processed)} \cap
  {f \in env.oversize : ~(pc[Reader] \in {"rd_procerr"} /\ rmsg = f)}

\* C24: a received frame longer than MaxMessageSize is not given to the
\* on-message callback, and the error recorded for it is MessageTooLarge
C24_OversizeFrameNotDelivered ==
  /\ \A i \in 1..Len(frameLog.onMessage) :
       FrameSize(frameLog.onMessage[i]) <= MaxMessageSize
  /\ ErrorsByCode[ErrCodeMessageTooLarge] = Cardinality(OversizeHandled)

\* ------------------------------------------------------------------ counters
\* the counters of c.Stats and those of the last reply of /metrics
Counters ==
  <<Stats.MessagesSent, Stats.MessagesReceived, Stats.BytesSent,
    Stats.BytesReceived, ReconnectCount, Errors.TotalErrors,
    exported.last.MessagesSentTotal, exported.last.MessagesReceivedTotal,
    exported.last.BytesSentTotal, exported.last.BytesReceivedTotal,
    exported.last.ReconnectionsTotal, exported.last.ErrorsTotal>>

\* C29: no counter decreases, neither in c.Stats nor in the values that
\* /metrics writes out
C29_CountersNeverDecrease ==
  [][\A i \in 1..Len(Counters) : Counters'[i] >= Counters[i]]_vars

\* two replies of /metrics were written, the second with the counts of a
\* sent message, a received frame, a recorded error and a connection
C29_Witness ==
  /\ exported.replies = 2
  /\ exported.last.MessagesSentTotal = 1
  /\ exported.last.MessagesReceivedTotal = 1
  /\ exported.last.ErrorsTotal > 0
  /\ exported.last.ReconnectionsTotal = 1

\* --------------------------------------------------------------- error trend
\* C28: the trend never holds more than MaxErrorTrend points, and it holds
\* the points of the latest recordings, in the order of the recordings
C28_TrendKeepsLatest ==
  LET trend == Errors.ErrorTrend
  IN  /\ Len(trend) <= MaxErrorTrend
      /\ Len(trend) = MaxErrorTrend \/ Len(trend) = Errors.TotalErrors
      /\ \A i \in 1..Len(trend) :
           trend[i].Timestamp = Errors.TotalErrors - Len(trend) + i

\* two errors were recorded after the trend had become full
C28_Witness ==
  /\ Errors.TotalErrors = MaxErrorTrend + 2
  /\ Len(Errors.ErrorTrend) = MaxErrorTrend
  /\ Errors.ErrorTrend[1].Timestamp = 3

\* ----------------------------------------------------------------- heartbeat
\* the reader is in conn.ReadMessage on the open connection
Reading == pc[Reader] = "rd_read" /\ rconn = conn /\ conn \notin closedH

\* C25: with auto-ping, a ping interval shorter than the configured read
\* timeout and a peer that answers every ping, the read deadline is
\* re-armed to now + ReadTimeout on every pong and never expires while the
\* session is idle
C25_IdleSessionSurvives ==
  /\ [](cfg.PingInterval < cfg.ReadTimeout /\ Reading
          => clock.now < clock.deadline)
  /\ [][clock'.pongs # clock.pongs /\ clock'.pongs \subseteq clock.pongs
          => clock'.deadline = clock.now + cfg.ReadTimeout]_vars
  /\ [][pc[Reader] = "rd_process" /\ pc'[Reader] # "rd_process"
          => clock'.deadline = clock.now + cfg.ReadTimeout]_vars

\* the session was idle for MaxTime seconds, and the pong of the last ping
\* was read after the first deadline had long passed
C25_Witness ==
  /\ Reading
  /\ clock.now = MaxTime
  /\ clock.pongs = {}
  /\ pings >= 4
  /\ frames = MaxFrames
  /\ clock.deadline > clock.now

\* ------------------------------------------------------------- read errors
\* the entries of the ErrorBook that ProcessMessage did not cause
LossRecords ==
  Cardinality({i \in DOMAIN Errors.ErrorTrend :
     Errors.ErrorTrend[i].ErrorCode # inferErrorCode(ErrTextValidation)})

\* C31: every connection loss the reader detects outside of shutdown is
\* recorded in the ErrorBook: when the supervisor has set up the connection
\* that follows k lost ones, the book holds at least k entries of losses
C31_ReadLossRecorded ==
  ~ctxDone /\ ReconnectCount >= 2 => LossRecords >= ReconnectCount - 1

\* ----------------------------------------------------------- health server
\* the step answers a request of the path with a reply
Answers(path) ==
  /\ Len(exported'.http) = Len(exported.http) + 1
  /\ exported'.http[Len(exported'.http)].path = path

LastReply == exported.http[Len(exported.http)]

\* C32: GET /ready answers 200 with ready:true if and only if State =
\* Connected when the request is served, and 503 with ready:false in every
\* other state
C32_ReadyIffConnected ==
  [][Answers("/ready") =>
       /\ LastReply'.status = 200 <=> state = StateConnected
       /\ LastReply'.status \in {200, 503}
       /\ LastReply'.ok <=> LastReply'.status = 200]_vars

\* /ready answered 200 in a connected session and 503 after its loss, while
\* the supervisor dialled again
C32_Witness ==
  /\ Len(exported.http) = 2
  /\ exported.http[1] = Reply("/ready", TRUE, StateConnected)
  /\ exported.http[2].path = "/ready"
  /\ exported.http[2].status = 503
  /\ exported.http[2].at = StateConnecting
  /\ ReconnectCount = 1

\* Stop has stored its state
StopStored == \E p \in Stoppers : pc[p] \notin {"off", "st_idle", "st_setstate"}

\* C33: during a graceful stop of a connected session /ready flips to 503
\* before /health does (no /ready reply of 200 follows a /health reply of
\* 503), and /health does flip: a request of /health served after Stop has
\* stored its state is answered 503
C33_ReadyFlipsBeforeHealth ==
  /\ [](\A i, j \in DOMAIN exported.http :
          i < j /\ exported.http[i].path = "/health"
                /\ exported.http[i].status = 503
            => ~(exported.http[j].path = "/ready"
                 /\ exported.http[j].status = 200))
  /\ [][Answers("/health") /\ StopStored /\ exported.http # <<>>
        /\ exported.http[1] = Reply("/ready", TRUE, StateConnected)
          => LastReply'.status = 503]_vars

\* -------------------------------------------------------------- lock order
\* the task is about to take c.writeMu
WantsGate(p) == pc[p] \in {"cm_lock", "sm_lock"}

\* C34: locks nest only in the order c.writeMu, then c.mu: the task that
\* holds c.mu neither waits for c.writeMu nor takes it, so no two tasks
\* wait for each other's lock
C34_GateBeforeClientLock ==
  /\ [](\A p \in Procs : mu = p => ~WantsGate(p) /\ writeMu # p)
  /\ [][writeMu' # writeMu /\ writeMu' # ""
          => mu # writeMu' /\ mu' # writeMu']_vars

\* both locks are held at once, by different tasks, while a third task
\* waits for c.writeMu
C34_Witness ==
  /\ writeMu = User
  /\ mu = "stop1"
  /\ WantsGate(Hb)

\* C37: c.writeMu is held for one transport write only: a sender whose write
\* failed has released it before the recovery wait begins, so no ping of the
\* heartbeat and no pong of the reader waits for the gate during that wait
C37_GateFreeDuringRecovery ==
  \A p \in Senders :
    pc[p] = "sm_recover" =>
      /\ writeMu # p
      /\ ~(\E q \in {Hb, Reader} : WantsGate(q) /\ writeMu = p)

\* ------------------------------------------------------- connection metrics
\* the step is the updatePrometheusMetrics of a request of /metrics
Scrapes == \E t \in Tele : pc[t] = "tm_idle" /\ pc'[t] = "tm_print"

\* C35: in /metrics the gauge connections_active is 1 exactly when State =
\* Connected and 0 otherwise, and the counter connections-total has grown by
\* one with every established connection
C35_ConnectionGauges ==
  [][Scrapes =>
       /\ metrics'.ConnectionsActive = (IF state = StateConnected THEN 1 ELSE 0)
       /\ metrics'.ConnectionsTotal = ReconnectCount]_vars

\* ------------------------------------------------------------ failed dials
\* the dials that have failed so far, while none is under way
FailedDials == dials - ReconnectCount

\* C36: a failed dial leaves the session ready for the next attempt: when
\* Connect has returned its error the state is Disconnected, no handle has
\* been installed or removed, and the ErrorBook has got exactly one entry
\* for it; attemptConnection then increases RetryCount by exactly 1
C36_FailedDialLeavesSessionReady ==
  /\ [](pc[Sup] \in {"sv_dial", "sv_connerr", "sv_recover", "sv_recwait",
                      "sv_retry"} => conn = NoConn)
  /\ [](pc[Sup] \in {"sv_connerr", "sv_recover"}
          => Errors.TotalErrors = FailedDials - 1)
  /\ [](pc[Sup] \in {"sv_recwait", "sv_retry"}
          => state = StateDisconnected /\ Errors.TotalErrors = FailedDials)
  /\ [][pc[Sup] = "sv_retry" /\ pc'[Sup] # "sv_retry"
          => /\ RetryCount' = RetryCount + 1
             /\ state' = StateDisconnected
             /\ conn' = conn
             /\ Errors' = Errors]_vars

\* the second dial in a row has failed, after a session that was lost, and
\* has been counted
C36_Witness ==
  /\ pc[Sup] = "sv_wait"
  /\ ReconnectCount = 1
  /\ RetryCount = 2
  /\ Errors.TotalErrors = 2
  /\ state = StateDisconnected

\* --------------------------------------------------------- reconnect count
\* the handles that setupConnection has installed
Established == closedH \cup ({conn} \ {NoConn})

RECURSIVE SumByCode(_)
\* the sum of the per-kind counts over the kinds in S
SumByCode(S) ==
  IF S = {} THEN 0
  ELSE LET c == CHOOSE x \in S : TRUE
       IN  ErrorsByCode[c] + SumByCode(S \ {c})

\* the smaller of two numbers
Min(a, b) == IF a < b THEN a ELSE b

\* C39: the ErrorBook is consistent after any sequence of recordError calls
\* of any tasks: TotalErrors is the sum of the per-kind counts, and the
\* trend holds min(TotalErrors, 1000) points
C39_ErrorBookConsistent ==
  /\ Errors.TotalErrors = SumByCode(ErrorCodes)
  /\ Len(Errors.ErrorTrend) = Min(Errors.TotalErrors, MaxErrorTrend)

\* more than MaxErrorTrend errors of two kinds were recorded
C39_Witness ==
  /\ Errors.TotalErrors = MaxErrorTrend + 1
  /\ Len(Errors.ErrorTrend) = MaxErrorTrend
  /\ ErrorsByCode[ErrCodeRateLimitExceeded] = MaxErrorTrend + 1 - MaxRequests
  /\ ErrorsByCode[ErrCodeSecurityViolation] = MaxRequests

\* ------------------------------------------------------------- rate limiter
\* C40: the rate limiter admits at most MaxRequests calls within any window
\* of TimeWindow seconds, and after a call was rejected for exceeding the
\* limit no call is admitted until a full TimeWindow has passed since that
\* rejection; the calls are serial under rl.mu, so that concurrent senders
\* cannot exceed the limit together
C40_RateLimitHolds ==
  /\ [](Len(InWindow(rateLimiter.admitted)) <= MaxRequests)
  /\ [][rateLimiter'.admitted # rateLimiter.admitted
          => \/ rateLimiter.rejectedAt = -1
             \/ clock.now >= rateLimiter.rejectedAt + TimeWindow]_vars

\* MaxRequests calls were admitted over two instants of one window, the
\* next call was rejected, and a call is admitted again one window later
C40_Witness ==
  /\ rateLimiter.rejectedAt = Quantum
  /\ clock.now = Quantum + TimeWindow
  /\ rateLimiter.admitted = <<clock.now>>
  /\ rateLimiter.blockedUntil = clock.now
  /\ rateLimiter.callers = Senders

====
